---- MODULE Spec2Model ----
(***************************************************************************)
(* A model of the oneway file transfer: the retransmit framing             *)
(* (src/src/retransmit.rs), the message codec (src/src/messages.rs), the   *)
(* sender (src/src/connection/client.rs) and the per-peer handler          *)
(* (src/src/connection/server.rs).                                         *)
(*                                                                         *)
(* Bytes are the naturals 0..255 and buffers are sequences of bytes.       *)
(* A u16 is a natural below 2^16.  A u32 is a pair and a u64 a 4-tuple of  *)
(* 16-bit limbs, most significant first, so that the full width of the     *)
(* identifiers is kept.  An Option is <<>> (None) or <<x>> (Some(x)).      *)
(***************************************************************************)
EXTENDS Integers, Sequences, FiniteSets, TLC

VARIABLES
    overflow_checks,  \* build profile: TRUE when integer overflow panics (debug), FALSE when it wraps (release)
    rsm,              \* Reassembler harness: the Reassembler under test
    fed,              \* Reassembler harness: what was pushed, in order
    out,              \* Reassembler harness: the result of each get_next_data call, in order
    pending,          \* Reassembler harness: the rest of a datagram whose prefix was pushed (Option)
    cfg,              \* Config: [mtu, remission_count]
    files,            \* sender: the files under its root, as find_files lists them
    snd,              \* sender: the Client running examples/sender.rs, and the static NEXT_ID
    wire,             \* sender: the datagrams the current send_message call handed to the socket
    net,              \* the datagrams in flight from the sender's socket, in order
    codec,            \* codec harness: a Message, what to_wire made of it, what from_wire made of that
    conf,             \* Config harness: the lines of a stream, what parse_stream returned (Option)
    srv,              \* receiver: the Server's handlers map (address |-> task), its kill queue, what recv_message returned
    hnd,              \* receiver: the ClientHandler tasks in the order they were spawned, each with its queue
    fs                \* receiver: its file system, [files: location |-> bytes, dirs]

rvars == <<rsm, fed, out, pending>>

svars == <<cfg, files, snd, wire, net>>

cvars == <<codec, conf>>

hvars == <<srv, hnd, fs>>

vars == <<overflow_checks, rsm, fed, out, pending, cfg, files, snd, wire, net, codec, conf, srv, hnd, fs>>

----------------------------------------------------------------------------
(* Options and fixed-width integers *)

None == <<>>

Some(x) == <<x>>

Unwrap(o) == o[1]

TwoPow16 == 256 * 256

LimbMax == TwoPow16 - 1

\* u16::to_be_bytes
BE16(n) == <<n \div 256, n % 256>>

\* nom be_u16 on two bytes
U16FromBE(b) == b[1] * 256 + b[2]

\* u32::to_be_bytes on a pair of limbs
BE32(x) == BE16(x[1]) \o BE16(x[2])

\* nom be_u32 on four bytes
U32FromBE(b) == <<U16FromBE(SubSeq(b, 1, 2)), U16FromBE(SubSeq(b, 3, 4))>>

\* a small natural as a u32
U32(n) == <<n \div TwoPow16, n % TwoPow16>>

U32Max == <<LimbMax, LimbMax>>

\* U32Cmp with its operands taken in the wrong order
U32CmpSwapped(a, b) ==
    IF a = b THEN "Equal"
    ELSE IF b[1] < a[1] \/ (b[1] = a[1] /\ b[2] < a[2]) THEN "Less"
    ELSE "Greater"

\* Ord::cmp on u32
U32Cmp(a, b) ==
    IF a = b THEN "Equal"
    ELSE IF a[1] < b[1] \/ (a[1] = b[1] /\ a[2] < b[2]) THEN "Less"
    ELSE "Greater"

\* u32 + 1, wrapping at 2^32
U32WrappingInc(x) ==
    IF x[2] = LimbMax THEN <<(x[1] + 1) % TwoPow16, 0>> ELSE <<x[1], x[2] + 1>>

----------------------------------------------------------------------------
(* RetransmitHeader: src/src/retransmit.rs *)

\* b"1WAY"
RETRANSMIT_MAGIC == <<49, 87, 65, 89>>

\* RetransmitHeader::size(): magic 4 + offset 2 + size 2 + total_size 2 + id 4
HeaderSize == Len(RETRANSMIT_MAGIC) + 2 + 2 + 2 + 4

\* to_wire with the size written before the offset
HeaderToWireSizeFirst(h) ==
    RETRANSMIT_MAGIC \o BE16(h.size) \o BE16(h.offset) \o BE16(h.total_size) \o BE32(h.id)

\* RetransmitHeader::to_wire
HeaderToWire(h) ==
    RETRANSMIT_MAGIC \o BE16(h.offset) \o BE16(h.size) \o BE16(h.total_size) \o BE32(h.id)

\* RetransmitHeader::from_wire, with nom's complete parsers: too few bytes is
\* an Error, not Incomplete.  verify(|ts| ts >= offset + size) adds two u16.
HeaderFromWire(input) ==
    IF Len(input) < 4 \/ SubSeq(input, 1, 4) # RETRANSMIT_MAGIC THEN [res |-> "Error"]
    ELSE IF Len(input) < 10 THEN [res |-> "Error"]
    ELSE LET offset == U16FromBE(SubSeq(input, 5, 6))
             size == U16FromBE(SubSeq(input, 7, 8))
             total_size == U16FromBE(SubSeq(input, 9, 10))
         IN  IF offset + size >= TwoPow16 /\ overflow_checks THEN [res |-> "Panic"]
             ELSE IF ~(total_size >= (offset + size) % TwoPow16) THEN [res |-> "Error"]
             ELSE IF Len(input) < 14 THEN [res |-> "Error"]
             ELSE [res |-> "Ok",
                   header |-> [offset |-> offset, size |-> size, total_size |-> total_size,
                               id |-> U32FromBE(SubSeq(input, 11, 14))],
                   rest |-> SubSeq(input, 15, Len(input))]

----------------------------------------------------------------------------
(* Reassembler: src/src/retransmit.rs *)

\* consume: the buffer is shrunk once it holds more than this many bytes
ShrinkThreshold == 4096

\* Reassembler::new
ReassemblerNew == [buffer |-> <<>>, offset |-> 0, current_header |-> None, expected_id |-> None]

\* get_data: &self.buffer[self.offset..] panics when offset > len
GetDataPanics(r) == r.offset > Len(r.buffer)

GetData(r) == SubSeq(r.buffer, r.offset + 1, Len(r.buffer))

\* consume: assert!(self.offset + count <= self.buffer.len())
ConsumePanics(r, count) == r.offset + count > Len(r.buffer)

\* consume: advance the cursor, drop the preloaded header, and above the
\* threshold keep only the tail from the new cursor on (split_off + swap);
\* self.offset is left as it is.
Consume(r, count) ==
    LET off == r.offset + count IN
    [r EXCEPT !.offset = off,
              !.current_header = None,
              !.buffer = IF Len(r.buffer) > ShrinkThreshold
                         THEN SubSeq(r.buffer, off + 1, Len(r.buffer))
                         ELSE r.buffer]

\* push_data
PushData(r, data) == [r EXCEPT !.buffer = r.buffer \o data]

\* load_header once the header bytes are parsed (p is from_wire's result):
\* the first header ever seen sets expected_id; the header bytes are consumed
LoadHeaderParsed(r, p) ==
    IF p.res = "Panic" THEN [r |-> r, res |-> "Panic"]
    ELSE IF p.res = "Error" THEN [r |-> r, res |-> "Deserialize"]
    ELSE [r |-> [Consume([r EXCEPT !.expected_id = IF r.expected_id = None
                                                    THEN Some(p.header.id)
                                                    ELSE r.expected_id],
                         HeaderSize)
                 EXCEPT !.current_header = Some(p.header)],
          res |-> "Ok"]

\* load_header: [r, res], the header being r.current_header when res = "Ok"
LoadHeader(r) ==
    IF r.current_header # None THEN [r |-> r, res |-> "Ok"]
    ELSE IF GetDataPanics(r) THEN [r |-> r, res |-> "Panic"]
    ELSE IF Len(GetData(r)) < HeaderSize THEN [r |-> r, res |-> "NoData"]
    ELSE LoadHeaderParsed(r, HeaderFromWire(GetData(r)))

RECURSIVE RetransmitsLoop(_, _)

\* one turn of the loop of get_restransmits on the loaded header h, c being
\* h.id.cmp(&expected_id): a header of an earlier id or of an offset already
\* seen is skipped with its payload, a later id becomes the expected one
RetransmitsCompare(r, h, c, expected_offset) ==
    IF c = "Less" \/ h.offset < expected_offset
    THEN IF ConsumePanics(r, h.size) THEN [r |-> r, res |-> "Panic"]
         ELSE RetransmitsLoop(
                 Consume([r EXCEPT !.expected_id = IF c = "Greater" THEN Some(h.id)
                                                   ELSE r.expected_id], h.size),
                 expected_offset)
    ELSE IF h.offset > expected_offset
         THEN [r |-> [r EXCEPT !.expected_id = IF c = "Greater" THEN Some(h.id)
                                               ELSE r.expected_id],
               res |-> "MissingData"]
    ELSE [r |-> [r EXCEPT !.expected_id = IF c = "Greater" THEN Some(h.id) ELSE r.expected_id],
          res |-> "Ok"]

\* the loop of get_restransmits after its load_header (lh is its result)
RetransmitsLoaded(lh, expected_offset) ==
    IF lh.res # "Ok" THEN lh
    ELSE RetransmitsCompare(lh.r, Unwrap(lh.r.current_header),
                            U32Cmp(Unwrap(lh.r.current_header).id, Unwrap(lh.r.expected_id)),
                            expected_offset)

\* the loop of get_restransmits: [r, res], res "Ok" when the header at
\* expected_offset is loaded
RetransmitsLoop(r, expected_offset) == RetransmitsLoaded(LoadHeader(r), expected_offset)

\* the end of get_restransmits: take the header, copy its payload
\* (&self.get_data()[..data_size]) and consume it
TakePayload(r, header, data) ==
    IF GetDataPanics(r) \/ header.size > Len(GetData(r))
    THEN [r |-> r, res |-> "Panic", data |-> data]
    ELSE [r |-> Consume(r, header.size), res |-> "Ok",
          data |-> data \o SubSeq(GetData(r), 1, header.size),
          header |-> header]

\* get_restransmits after its loop (lp is the loop's result)
RetransmitsLooped(lp, data) ==
    IF lp.res # "Ok" THEN [r |-> lp.r, res |-> lp.res, data |-> data]
    ELSE TakePayload([lp.r EXCEPT !.current_header = None], Unwrap(lp.r.current_header), data)

\* get_restransmits after its first load_header
RetransmitsFirst(first, data, expected_offset) ==
    IF first.res # "Ok" THEN [r |-> first.r, res |-> first.res, data |-> data]
    ELSE RetransmitsLooped(RetransmitsLoop(first.r, expected_offset), data)

\* get_restransmits: [r, res, data, header]
GetRetransmits(r, data, expected_offset) ==
    RetransmitsFirst(LoadHeader(r), data, expected_offset)

RECURSIVE NextDataLoop(_, _, _)

\* one turn of the loop of get_next_data on get_restransmits' result g; on
\* an error the local data is dropped; at the end expected_id is incremented
NextDataStep(g, expected_offset) ==
    IF g.res # "Ok" THEN [r |-> g.r, res |-> g.res, data |-> <<>>]
    ELSE IF expected_offset + g.header.size >= TwoPow16 /\ overflow_checks
         THEN [r |-> g.r, res |-> "Panic", data |-> <<>>]
    ELSE IF (expected_offset + g.header.size) % TwoPow16 # g.header.total_size
         THEN NextDataLoop(g.r, g.data, (expected_offset + g.header.size) % TwoPow16)
    \* *self.expected_id.as_mut().unwrap() += 1
    ELSE IF Unwrap(g.r.expected_id) = U32Max /\ overflow_checks
         THEN [r |-> g.r, res |-> "Panic", data |-> <<>>]
    ELSE [r |-> [g.r EXCEPT !.expected_id = Some(U32WrappingInc(Unwrap(g.r.expected_id)))],
          res |-> "Ok", data |-> g.data]

\* the loop of get_next_data
NextDataLoop(r, data, expected_offset) ==
    NextDataStep(GetRetransmits(r, data, expected_offset), expected_offset)

\* get_next_data: [r, res, data]
GetNextData(r) == NextDataLoop(r, <<>>, 0)

----------------------------------------------------------------------------
(* Retransmit, the sending side: src/src/retransmit.rs *)

\* Retransmit::new: data.len() and mtu must fit a u16; the id is drawn from
\* the static NEXT_ID only after both conversions
RetransmitNew(data, remission_count, mtu, id) ==
    IF Len(data) >= TwoPow16 \/ mtu >= TwoPow16 THEN [res |-> "IntegerConversion"]
    ELSE [res |-> "Ok",
          rt |-> [header |-> [offset |-> 0, size |-> 0, total_size |-> Len(data), id |-> id],
                  mtu |-> mtu,
                  current_emission |-> 1,
                  total_emissions |-> remission_count,
                  data |-> data,
                  buffer |-> <<>>]]

\* max_payload_size(mtu) = mtu - RetransmitHeader::size(), for mtu > size
MaxPayloadSize(mtu) == mtu - HeaderSize

\* get_chunk panics on &self.data[offset..] past the end and on
\* self.mtu - RetransmitHeader::size() below zero (the subtraction overflows
\* or, wrapped, the slice is out of range)
GetChunkPanics(rt) ==
    \/ rt.header.offset > Len(rt.data)
    \/ /\ (Len(rt.data) - rt.header.offset) + HeaderSize > rt.mtu
       /\ rt.mtu < HeaderSize

\* get_chunk taking every chunk from the start of data
GetChunkFromStart(rt) ==
    LET remaining == SubSeq(rt.data, rt.header.offset + 1, Len(rt.data)) IN
    IF Len(remaining) + HeaderSize > rt.mtu
    THEN SubSeq(rt.data, 1, rt.mtu - HeaderSize)
    ELSE remaining

\* get_chunk leaving no room for the header
GetChunkNoHeader(rt) ==
    LET remaining == SubSeq(rt.data, rt.header.offset + 1, Len(rt.data)) IN
    IF Len(remaining) > rt.mtu
    THEN SubSeq(remaining, 1, rt.mtu)
    ELSE remaining

\* get_chunk: the part of data at header.offset that fits one datagram
GetChunk(rt) ==
    LET remaining == SubSeq(rt.data, rt.header.offset + 1, Len(rt.data)) IN
    IF Len(remaining) + HeaderSize > rt.mtu
    THEN SubSeq(remaining, 1, rt.mtu - HeaderSize)
    ELSE remaining

\* prepare_buffer: header (with the chunk's size) followed by the chunk
PrepareBuffer(rt) ==
    LET chunk == GetChunk(rt)
        header == [rt.header EXCEPT !.size = Len(chunk)]
    IN  [rt EXCEPT !.header = header, !.buffer = HeaderToWire(header) \o chunk]

\* get_next_chunk: [rt, res] with res "Some" (the chunk is rt.buffer), "None"
\* or "Panic"
GetNextChunk(rt) ==
    IF rt.current_emission <= rt.total_emissions
    THEN IF GetChunkPanics(rt) THEN [rt |-> rt, res |-> "Panic"]
         ELSE [rt |-> [PrepareBuffer(rt) EXCEPT !.current_emission = rt.current_emission + 1],
               res |-> "Some"]
    ELSE IF rt.mtu < HeaderSize THEN [rt |-> rt, res |-> "Panic"]
    ELSE LET advance == rt.mtu - HeaderSize
             sum == rt.header.offset + advance
         IN  IF sum >= TwoPow16 /\ overflow_checks THEN [rt |-> rt, res |-> "Panic"]
             ELSE IF sum % TwoPow16 < rt.header.total_size
             THEN LET rt1 == [rt EXCEPT !.current_emission = 1,
                                        !.header.offset = sum % TwoPow16]
                  IN  IF GetChunkPanics(rt1) THEN [rt |-> rt1, res |-> "Panic"]
                      ELSE [rt |-> PrepareBuffer(rt1), res |-> "Some"]
             ELSE [rt |-> rt, res |-> "None"]

\* reset counting emissions from 0
RetransmitResetToZero(rt) == [rt EXCEPT !.current_emission = 0, !.header.offset = 0]

\* reset
RetransmitReset(rt) == [rt EXCEPT !.current_emission = 1, !.header.offset = 0]

----------------------------------------------------------------------------
(* Message codec: src/src/messages.rs *)

\* u64 as four limbs
BE64(x) == BE16(x[1]) \o BE16(x[2]) \o BE16(x[3]) \o BE16(x[4])

\* the four 16-bit words of a u64 read last first
U64FromBEWordsSwapped(b) ==
    <<U16FromBE(SubSeq(b, 7, 8)), U16FromBE(SubSeq(b, 5, 6)),
      U16FromBE(SubSeq(b, 3, 4)), U16FromBE(SubSeq(b, 1, 2))>>

U64FromBE(b) ==
    <<U16FromBE(SubSeq(b, 1, 2)), U16FromBE(SubSeq(b, 3, 4)),
      U16FromBE(SubSeq(b, 5, 6)), U16FromBE(SubSeq(b, 7, 8))>>

\* a small natural as a u64, and back
U64(n) == <<0, 0, n \div TwoPow16, n % TwoPow16>>

U64ToNat(x) == x[3] * TwoPow16 + x[4]

\* get_max_content_size forgetting the content_size field
GetMaxContentSizeNoLength(mtu) == mtu - (1 + 8 + 8)

\* Message::get_max_content_size: the argument minus kind 1, id 8, offset 8,
\* content_size 2
GetMaxContentSize(mtu) == mtu - (1 + 8 + 8 + 2)

\* MessageKind as u8
KindToU8(kind) ==
    CASE kind = "Hello" -> 0
      [] kind = "KeepAlive" -> 1
      [] kind = "CountFilesToUpload" -> 2
      [] kind = "File" -> 3
      [] kind = "FileChunk" -> 4
      [] kind = "Done" -> 5

\* a tag reader that takes every octet modulo six
KindFromU8Modulo(mk) ==
    CASE mk % 6 = 0 -> Some("Hello")
      [] mk % 6 = 1 -> Some("KeepAlive")
      [] mk % 6 = 2 -> Some("CountFilesToUpload")
      [] mk % 6 = 3 -> Some("File")
      [] mk % 6 = 4 -> Some("FileChunk")
      [] OTHER -> Some("Done")

\* MessageKind::from_u8 (Option)
KindFromU8(mk) ==
    CASE mk = 0 -> Some("Hello")
      [] mk = 1 -> Some("KeepAlive")
      [] mk = 2 -> Some("CountFilesToUpload")
      [] mk = 3 -> Some("File")
      [] mk = 4 -> Some("FileChunk")
      [] mk = 5 -> Some("Done")
      [] OTHER -> None

\* std::str::from_utf8 accepts exactly the well-formed UTF-8 byte sequences
RECURSIVE Utf8Valid(_)
Utf8Valid(b) ==
    LET Cont(i) == i <= Len(b) /\ b[i] >= 128 /\ b[i] <= 191
        In(i, lo, hi) == i <= Len(b) /\ b[i] >= lo /\ b[i] <= hi
        Rest(n) == Utf8Valid(SubSeq(b, n + 1, Len(b)))
    IN  IF b = <<>> THEN TRUE
        ELSE IF b[1] <= 127 THEN Rest(1)
        ELSE IF b[1] >= 194 /\ b[1] <= 223 THEN Cont(2) /\ Rest(2)
        ELSE IF b[1] = 224 THEN In(2, 160, 191) /\ Cont(3) /\ Rest(3)
        ELSE IF b[1] = 237 THEN In(2, 128, 159) /\ Cont(3) /\ Rest(3)
        ELSE IF b[1] >= 225 /\ b[1] <= 239 THEN Cont(2) /\ Cont(3) /\ Rest(3)
        ELSE IF b[1] = 240 THEN In(2, 144, 191) /\ Cont(3) /\ Cont(4) /\ Rest(4)
        ELSE IF b[1] >= 241 /\ b[1] <= 243 THEN Cont(2) /\ Cont(3) /\ Cont(4) /\ Rest(4)
        ELSE IF b[1] = 244 THEN In(2, 128, 143) /\ Cont(3) /\ Cont(4) /\ Rest(4)
        ELSE FALSE

\* A SystemTime is [before_epoch, secs, nanos]: whole seconds from the epoch
\* (a u64) and the nanoseconds within the second.
\* UNIX_EPOCH.checked_add(Duration::from_secs(offset)) is None above i64::MAX
EpochCheckedAdd(offset) ==
    IF offset[1] >= TwoPow16 \div 2 THEN None
    ELSE Some([before_epoch |-> FALSE, secs |-> offset, nanos |-> 0])

\* Message::to_wire: [res, bytes]
MessageToWire(m) ==
    CASE m.kind \in {"Hello", "Done"} ->
            [res |-> "Ok", bytes |-> <<KindToU8(m.kind)>>]
      [] m.kind = "KeepAlive" ->
            [res |-> "Ok", bytes |-> <<KindToU8(m.kind)>> \o BE64(m.id)]
      [] m.kind = "CountFilesToUpload" ->
            [res |-> "Ok", bytes |-> <<KindToU8(m.kind)>> \o BE64(m.count)]
      [] m.kind = "File" ->
            \* filename.len().try_into()? to u16
            IF Len(m.filename) >= TwoPow16 THEN [res |-> "IntegerConversion", bytes |-> <<>>]
            \* created.duration_since(UNIX_EPOCH)?.as_secs()
            ELSE IF m.created.before_epoch THEN [res |-> "Time", bytes |-> <<>>]
            ELSE [res |-> "Ok",
                  bytes |-> <<KindToU8(m.kind)>> \o BE16(Len(m.filename)) \o m.filename
                            \o BE64(m.created.secs) \o BE64(m.size) \o BE64(m.id)]
      [] m.kind = "FileChunk" ->
            \* &content[..*content_size as usize]
            IF m.content_size > Len(m.content) THEN [res |-> "Panic", bytes |-> <<>>]
            ELSE [res |-> "Ok",
                  bytes |-> <<KindToU8(m.kind)>> \o BE64(m.id) \o BE64(m.offset)
                            \o BE16(m.content_size) \o SubSeq(m.content, 1, m.content_size)]

\* from_wire of a File body (after the kind), fl being filename_len; the
\* streaming parsers answer Incomplete when bytes are missing
FileFromWire(rest, fl) ==
    IF Len(rest) < 2 + fl THEN [res |-> "Incomplete"]
    ELSE IF ~Utf8Valid(SubSeq(rest, 3, 2 + fl)) THEN [res |-> "Error"]
    ELSE IF Len(rest) < 2 + fl + 8 THEN [res |-> "Incomplete"]
    ELSE IF EpochCheckedAdd(U64FromBE(SubSeq(rest, fl + 3, fl + 10))) = None
         THEN [res |-> "Error"]
    ELSE IF Len(rest) < 2 + fl + 24 THEN [res |-> "Incomplete"]
    ELSE [res |-> "Ok",
          message |-> [kind |-> "File",
                       filename |-> SubSeq(rest, 3, 2 + fl),
                       created |-> Unwrap(EpochCheckedAdd(U64FromBE(SubSeq(rest, fl + 3, fl + 10)))),
                       size |-> U64FromBE(SubSeq(rest, fl + 11, fl + 18)),
                       id |-> U64FromBE(SubSeq(rest, fl + 19, fl + 26))],
          rest |-> SubSeq(rest, fl + 27, Len(rest))]

\* from_wire of a FileChunk body (after id, offset and content_size), cs
\* being content_size
FileChunkFromWire(rest, cs) ==
    IF Len(rest) < 18 + cs THEN [res |-> "Incomplete"]
    ELSE [res |-> "Ok",
          message |-> [kind |-> "FileChunk",
                       id |-> U64FromBE(SubSeq(rest, 1, 8)),
                       offset |-> U64FromBE(SubSeq(rest, 9, 16)),
                       content_size |-> cs,
                       content |-> SubSeq(rest, 19, 18 + cs)],
          rest |-> SubSeq(rest, 19 + cs, Len(rest))]

\* from_wire after the kind octet
BodyFromWire(kind, rest) ==
    CASE kind \in {"Hello", "Done"} ->
            [res |-> "Ok", message |-> [kind |-> kind], rest |-> rest]
      [] kind = "KeepAlive" ->
            IF Len(rest) < 8 THEN [res |-> "Incomplete"]
            ELSE [res |-> "Ok",
                  message |-> [kind |-> kind, id |-> U64FromBE(SubSeq(rest, 1, 8))],
                  rest |-> SubSeq(rest, 9, Len(rest))]
      [] kind = "CountFilesToUpload" ->
            IF Len(rest) < 8 THEN [res |-> "Incomplete"]
            ELSE [res |-> "Ok",
                  message |-> [kind |-> kind, count |-> U64FromBE(SubSeq(rest, 1, 8))],
                  rest |-> SubSeq(rest, 9, Len(rest))]
      [] kind = "File" ->
            IF Len(rest) < 2 THEN [res |-> "Incomplete"]
            ELSE FileFromWire(rest, U16FromBE(SubSeq(rest, 1, 2)))
      [] kind = "FileChunk" ->
            IF Len(rest) < 18 THEN [res |-> "Incomplete"]
            ELSE FileChunkFromWire(rest, U16FromBE(SubSeq(rest, 17, 18)))

\* Message::from_wire, with nom's streaming parsers: [res, message, rest]
MessageFromWire(input) ==
    IF input = <<>> THEN [res |-> "Incomplete"]
    ELSE IF KindFromU8(input[1]) = None THEN [res |-> "Error"]
    ELSE BodyFromWire(Unwrap(KindFromU8(input[1])), Tail(input))

----------------------------------------------------------------------------
(* Client: src/src/connection/client.rs, driven as examples/sender.rs does *)

\* send_file: Message::get_max_content_size(max_payload_size(mtu))
ContentMaxSize(mtu) == GetMaxContentSize(MaxPayloadSize(mtu))

\* send_file panics before its first message when the two subtractions go
\* below zero: debug_assert!(mtu > size) or the subtraction overflow when
\* overflow is checked, &mut content[..content_max_size] past the end of the
\* mtu-byte buffer when it wraps
SendFilePanics(mtu) == ContentMaxSize(mtu) < 0

SenderStopped == snd.pc \in {"finished", "failed", "panicked"}

\* send_message after Retransmit::new (n is its result): Retransmit::send
\* begins with reset
SendMessageNew(s, m, raw, n) ==
    IF n.res # "Ok"
    THEN [s EXCEPT !.pc = "failed", !.result = n.res, !.message = m, !.raw = raw]
    ELSE [s EXCEPT !.pc = "sending", !.rt = Some(RetransmitReset(n.rt)),
                   !.next_id = U32WrappingInc(s.next_id),
                   !.result = "Sending", !.message = m, !.raw = raw]

\* send_message after message.to_wire (w is its result)
SendMessageWired(s, m, w, c) ==
    IF w.res = "Panic" THEN [s EXCEPT !.pc = "panicked", !.result = "Panic", !.message = m, !.raw = <<>>]
    ELSE IF w.res # "Ok" THEN [s EXCEPT !.pc = "failed", !.result = w.res, !.message = m, !.raw = <<>>]
    ELSE SendMessageNew(s, m, w.bytes, RetransmitNew(w.bytes, c.remission_count, c.mtu, s.next_id))

\* tracing::debug!("Sending message: {:?}", message): the Message as the
\* trace of send_message keeps it here, without a File's creation time and
\* a FileChunk's content
Logged(m) ==
    CASE m.kind = "FileChunk" ->
            [kind |-> m.kind, id |-> m.id, offset |-> m.offset, content_size |-> m.content_size]
      [] m.kind = "File" ->
            [kind |-> m.kind, id |-> m.id, filename |-> m.filename, size |-> m.size]
      [] OTHER -> m

\* send_message up to the first get_next_chunk
SendMessage(s, m, c) ==
    SendMessageWired([s EXCEPT !.log = Append(@, Logged(m))], m, MessageToWire(m), c)

\* send_hello
SendHello ==
    /\ snd.pc = "hello"
    /\ snd' = SendMessage([snd EXCEPT !.after = "count"], [kind |-> "Hello"], cfg)
    /\ wire' = <<>>
    /\ UNCHANGED <<overflow_checks, rvars, cvars, hvars, cfg, files, net>>

\* send_files going from CountFilesToUpload to the first send_file, without
\* the creation notices
SendCountThenChunks ==
    /\ snd.pc = "count"
    /\ snd' = SendMessage([snd EXCEPT !.after = IF files = <<>> THEN "done" ELSE "open",
                                      !.idx = 1],
                          [kind |-> "CountFilesToUpload", count |-> U64(Len(files))], cfg)
    /\ wire' = <<>>
    /\ UNCHANGED <<overflow_checks, rvars, cvars, hvars, cfg, files, net>>

\* send_files: CountFilesToUpload first
SendCount ==
    /\ snd.pc = "count"
    /\ snd' = SendMessage([snd EXCEPT !.after = IF files = <<>> THEN "done" ELSE "creation",
                                      !.idx = 1],
                          [kind |-> "CountFilesToUpload", count |-> U64(Len(files))], cfg)
    /\ wire' = <<>>
    /\ UNCHANGED <<overflow_checks, rvars, cvars, hvars, cfg, files, net>>

\* send_files, first loop: send_file_creation of file idx
SendFileCreation ==
    /\ snd.pc = "creation"
    /\ snd' = SendMessage([snd EXCEPT !.after = IF snd.idx < Len(files) THEN "creation" ELSE "open",
                                      !.idx = IF snd.idx < Len(files) THEN snd.idx + 1 ELSE 1],
                          [kind |-> "File",
                           filename |-> files[snd.idx].filename,
                           created |-> files[snd.idx].created,
                           size |-> U64(Len(files[snd.idx].content)),
                           id |-> files[snd.idx].id],
                          cfg)
    /\ wire' = <<>>
    /\ UNCHANGED <<overflow_checks, rvars, cvars, hvars, cfg, files, net>>

\* send_file up to its loop: open the file, allocate the mtu-byte content
\* buffer of the FileChunk message, compute content_max_size
SendFileOpen ==
    /\ snd.pc = "open"
    /\ ~SendFilePanics(cfg.mtu)
    /\ snd' = [snd EXCEPT !.pc = "chunk", !.pos = 0, !.content = [i \in 1..cfg.mtu |-> 0]]
    /\ UNCHANGED <<overflow_checks, rvars, cvars, hvars, cfg, files, wire, net>>

SendFileOpenPanics ==
    /\ snd.pc = "open"
    /\ SendFilePanics(cfg.mtu)
    /\ snd' = [snd EXCEPT !.pc = "panicked"]
    /\ UNCHANGED <<overflow_checks, rvars, cvars, hvars, cfg, files, wire, net>>

\* what f.read(&mut content[..content_max_size]) returns at position pos
ReadSize(file, pos, mtu) ==
    IF Len(file.content) - pos < ContentMaxSize(mtu)
    THEN Len(file.content) - pos
    ELSE ContentMaxSize(mtu)

\* the content buffer after the read: the bytes read, then what it held
ReadInto(content, file, pos, size) ==
    SubSeq(file.content, pos + 1, pos + size) \o SubSeq(content, size + 1, Len(content))

\* send_file, one turn of its loop: read at the stream position and send the
\* FileChunk; a read of 0 bytes ends the loop after its message.  The read
\* fills the buffer as far as the file goes.
SendFileChunk ==
    /\ snd.pc = "chunk"
    /\ \E size \in {ReadSize(files[snd.idx], snd.pos, cfg.mtu)} :
          snd' = SendMessage(
                    [snd EXCEPT !.after = IF size > 0 THEN "chunk" ELSE "sent",
                                !.pos = snd.pos + size,
                                !.content = ReadInto(snd.content, files[snd.idx], snd.pos, size)],
                    [kind |-> "FileChunk",
                     id |-> files[snd.idx].id,
                     offset |-> U64(snd.pos),
                     content_size |-> size,
                     content |-> ReadInto(snd.content, files[snd.idx], snd.pos, size)],
                    cfg)
    /\ wire' = <<>>
    /\ UNCHANGED <<overflow_checks, rvars, cvars, hvars, cfg, files, net>>

\* send_file returns Ok: send_files goes on to the next file, or returns
SendFileReturns ==
    /\ snd.pc = "sent"
    /\ snd' = [snd EXCEPT !.pc = IF snd.idx < Len(files) THEN "open" ELSE "done",
                          !.idx = IF snd.idx < Len(files) THEN snd.idx + 1 ELSE snd.idx]
    /\ UNCHANGED <<overflow_checks, rvars, cvars, hvars, cfg, files, wire, net>>

\* send_done
SendDone ==
    /\ snd.pc = "done"
    /\ snd' = SendMessage([snd EXCEPT !.after = "finished"], [kind |-> "Done"], cfg)
    /\ wire' = <<>>
    /\ UNCHANGED <<overflow_checks, rvars, cvars, hvars, cfg, files, net>>

\* most datagrams in flight
MaxInFlight == 2

\* most datagrams recorded for one send_message call
MaxWire == 20

\* Retransmit::send, one turn of its loop: the next chunk goes to the socket
EmitChunk ==
    /\ snd.pc = "sending"
    /\ Len(net) < MaxInFlight
    /\ Len(wire) < MaxWire
    /\ \E g \in {GetNextChunk(Unwrap(snd.rt))} :
          /\ g.res = "Some"
          /\ snd' = [snd EXCEPT !.rt = Some(g.rt)]
          /\ wire' = Append(wire, g.rt.buffer)
          /\ net' = Append(net, g.rt.buffer)
    /\ UNCHANGED <<overflow_checks, rvars, cvars, hvars, cfg, files>>

\* socket.send(chunk).await? returns an error: send_message returns it
EmitFails ==
    /\ snd.pc = "sending"
    /\ GetNextChunk(Unwrap(snd.rt)).res = "Some"
    /\ snd' = [snd EXCEPT !.pc = "failed", !.result = "IO", !.rt = None]
    /\ UNCHANGED <<overflow_checks, rvars, cvars, hvars, cfg, files, wire, net>>

\* get_next_chunk returns None: send and send_message return Ok
EmitDone ==
    /\ snd.pc = "sending"
    /\ GetNextChunk(Unwrap(snd.rt)).res = "None"
    /\ snd' = [snd EXCEPT !.pc = snd.after, !.result = "Ok", !.rt = None]
    /\ UNCHANGED <<overflow_checks, rvars, cvars, hvars, cfg, files, wire, net>>

EmitPanics ==
    /\ snd.pc = "sending"
    /\ GetNextChunk(Unwrap(snd.rt)).res = "Panic"
    /\ snd' = [snd EXCEPT !.pc = "panicked", !.result = "Panic", !.rt = None]
    /\ UNCHANGED <<overflow_checks, rvars, cvars, hvars, cfg, files, wire, net>>

\* the transport loses the oldest datagram in flight
NetLose ==
    /\ net # <<>>
    /\ net' = Tail(net)
    /\ UNCHANGED <<overflow_checks, rvars, cvars, hvars, cfg, files, snd, wire>>

\* most copies of a datagram (remission_count)
MaxR == 2

\* most files under the sender's root
MaxFiles == 1

TestFileLens == {0, 1, 3, 4, 10}

\* the k-th file of the sender, of the given length: its name is one letter,
\* its id an inode number, its bytes differ from place to place
TestFile(k, len) ==
    [filename |-> <<96 + k>>,
     id |-> IF k = 1 THEN <<LimbMax, LimbMax, LimbMax, LimbMax - 1>> ELSE U64(k),
     created |-> [before_epoch |-> FALSE, secs |-> U64(1700000000), nanos |-> 500 * k],
     content |-> [i \in 1..len |-> (16 * k + 5 * i) % 256]]

TestFileLists ==
    UNION {{[k \in 1..n |-> TestFile(k, lens[k])] : lens \in [1..n -> TestFileLens]} : n \in 0..MaxFiles}

\* Client::new_with_config, in a process that has sent nothing yet
ClientNew ==
    [pc |-> "hello", after |-> "hello", next_id |-> U32(0), idx |-> 1, pos |-> 0,
     content |-> <<>>, rt |-> None, message |-> [kind |-> "None"], raw |-> <<>>,
     result |-> "None", log |-> <<>>]

\* the parts of the state a specification leaves alone
ReassemblerIdle == rsm = ReassemblerNew /\ fed = <<>> /\ out = <<>> /\ pending = None

SenderIdle ==
    /\ cfg = [mtu |-> 1024, remission_count |-> 3]
    /\ files = <<>>
    /\ snd = ClientNew
    /\ wire = <<>>
    /\ net = <<>>

ConfigIdle == conf = [stream |-> <<>>, result |-> None]

CodecIdle ==
    /\ codec = [m |-> [kind |-> "Hello"], encoded |-> None, decoded |-> None]
    /\ ConfigIdle

ReceiverIdle ==
    /\ srv = [handlers |-> <<>>, kill |-> <<>>, result |-> "Ok", sending |-> None]
    /\ hnd = <<>>
    /\ fs = [files |-> <<>>, dirs |-> {}]

SenderMtus == {13, 14, 20, 33, 36, 42, 65536}

InitS ==
    /\ overflow_checks \in BOOLEAN
    /\ ReassemblerIdle /\ CodecIdle /\ ReceiverIdle
    /\ cfg \in [mtu : SenderMtus, remission_count : 0..MaxR]
    /\ files \in TestFileLists
    /\ snd = ClientNew
    /\ wire = <<>>
    /\ net = <<>>

NextS ==
    \/ SendHello \/ SendCount \/ SendFileCreation \/ SendFileOpen \/ SendFileOpenPanics
    \/ SendFileChunk \/ SendFileReturns \/ SendDone
    \/ EmitChunk \/ EmitFails \/ EmitDone \/ EmitPanics
    \/ NetLose

\* the sender alone, its datagrams lost in transit
SpecS == InitS /\ [][NextS]_vars

\* send_message was called with a message that serialized to snd.raw
MessageSerialized == snd.message.kind # "None" /\ snd.raw # <<>>

\* the serialized message and one header are within the mtu
FitsOneEnvelope == Len(snd.raw) + HeaderSize <= cfg.mtu

\* the header fields of a datagram, read at the places to_wire writes them
DatagramOffset(d) == U16FromBE(SubSeq(d, 5, 6))

DatagramSize(d) == U16FromBE(SubSeq(d, 7, 8))

DatagramTotalSize(d) == U16FromBE(SubSeq(d, 9, 10))

DatagramId(d) == U32FromBE(SubSeq(d, 11, 14))

DatagramPayload(d) == SubSeq(d, HeaderSize + 1, Len(d))

\* C5 (blind repetition): while and after send_message sends a message that
\* fits one envelope, every datagram it handed to the socket is the same
\* envelope of the message (header with offset 0 and the message's length,
\* then the message), there are never more than remission_count of them, and
\* when send_message has returned Ok there are exactly remission_count.
C5_BlindRepetition ==
    (MessageSerialized /\ FitsOneEnvelope) =>
        /\ Len(wire) <= cfg.remission_count
        /\ (snd.result = "Ok" => Len(wire) = cfg.remission_count)
        /\ \A i \in 1..Len(wire) :
              /\ wire[i] = wire[1]
              /\ SubSeq(wire[i], 1, 4) = RETRANSMIT_MAGIC
              /\ DatagramOffset(wire[i]) = 0
              /\ DatagramSize(wire[i]) = Len(snd.raw)
              /\ DatagramPayload(wire[i]) = snd.raw

\* a FileChunk with content went out remission_count >= 2 times in one envelope
C5_Witness ==
    /\ MessageSerialized /\ FitsOneEnvelope
    /\ snd.message.kind = "FileChunk" /\ snd.message.content_size > 0
    /\ snd.result = "Ok"
    /\ cfg.remission_count >= 2
    /\ Len(wire) = cfg.remission_count

IsFragment(d) ==
    /\ HeaderSize <= Len(d) /\ Len(d) <= cfg.mtu
    /\ SubSeq(d, 1, 4) = RETRANSMIT_MAGIC
    /\ DatagramTotalSize(d) = Len(snd.raw)
    /\ DatagramOffset(d) % (cfg.mtu - HeaderSize) = 0
    /\ DatagramSize(d) = Len(d) - HeaderSize
    /\ DatagramPayload(d) = SubSeq(snd.raw, DatagramOffset(d) + 1, DatagramOffset(d) + DatagramSize(d))
    /\ \/ DatagramSize(d) = cfg.mtu - HeaderSize
       \/ DatagramOffset(d) + DatagramSize(d) = Len(snd.raw)

\* the fragments a message of snd.raw's length is cut into
FragmentCount == (Len(snd.raw) + (cfg.mtu - HeaderSize) - 1) \div (cfg.mtu - HeaderSize)

\* how often the datagram at place i of wire has gone out so far
TimesSent(i) == Cardinality({j \in 1..Len(wire) : DatagramOffset(wire[j]) = DatagramOffset(wire[i])})

C7_SizeBound ==
    /\ \A i \in 1..Len(wire) : Len(wire[i]) <= cfg.mtu
    /\ \A i \in 1..Len(net) : Len(net[i]) <= cfg.mtu

\* a datagram of exactly mtu bytes went out, a fragment of a longer message
C7_Witness ==
    /\ wire # <<>>
    /\ Len(wire[1]) = cfg.mtu
    /\ Len(snd.raw) + HeaderSize > cfg.mtu

\* C8 as the text states it (envelope header): every datagram is the magic,
\* a 16-bit big-endian size and that many payload bytes, 6 bytes of header in
\* all, and max_payload_size(mtu) is mtu - 6.
C8_EnvelopeHeader ==
    \A i \in 1..Len(wire) :
        /\ SubSeq(wire[i], 1, 4) = RETRANSMIT_MAGIC
        /\ U16FromBE(SubSeq(wire[i], 5, 6)) = Len(wire[i]) - 6
        /\ MaxPayloadSize(cfg.mtu) = cfg.mtu - 6

\* C8 as the code has it: every datagram is 14 bytes of header and its
\* payload: the magic, then big-endian the 16-bit offset of the payload in
\* the message, the 16-bit length of the payload, the 16-bit length of the
\* message and the 32-bit id of the message; max_payload_size(mtu) is
\* mtu - 14.
C8_EnvelopeHeader14 ==
    /\ HeaderSize = 14
    /\ MaxPayloadSize(cfg.mtu) = cfg.mtu - 14
    /\ \A i \in 1..Len(wire) :
          /\ Len(wire[i]) >= 14
          /\ SubSeq(wire[i], 1, 4) = RETRANSMIT_MAGIC
          /\ U16FromBE(SubSeq(wire[i], 7, 8)) = Len(wire[i]) - 14
          /\ U16FromBE(SubSeq(wire[i], 9, 10)) = Len(snd.raw)
          /\ U16FromBE(SubSeq(wire[i], 5, 6)) + U16FromBE(SubSeq(wire[i], 7, 8)) <= Len(snd.raw)
          /\ SubSeq(wire[i], 15, Len(wire[i])) =
                SubSeq(snd.raw, U16FromBE(SubSeq(wire[i], 5, 6)) + 1,
                       U16FromBE(SubSeq(wire[i], 5, 6)) + U16FromBE(SubSeq(wire[i], 7, 8)))
          /\ U32WrappingInc(U32FromBE(SubSeq(wire[i], 11, 14))) = snd.next_id

\* a later fragment went out: its offset is not 0, its payload is not the
\* whole message, its id is not 0
C8_Witness ==
    /\ wire # <<>>
    /\ U16FromBE(SubSeq(wire[Len(wire)], 5, 6)) > 0
    /\ U16FromBE(SubSeq(wire[Len(wire)], 7, 8)) > 0
    /\ U32FromBE(SubSeq(wire[Len(wire)], 11, 14)) # U32(0)

\* the bytes of the file that were left when the FileChunk being sent was read
LeftToRead ==
    Len(files[CHOOSE k \in 1..Len(files) : files[k].id = snd.message.id].content)
        - U64ToNat(snd.message.offset)

\* C9 as the text states it (FileChunk sizing): a FileChunk of send_file
\* carries the bytes left in the file, up to mtu - 25.
C9_FileChunkSizing ==
    (snd.message.kind = "FileChunk") =>
        snd.message.content_size =
            IF LeftToRead < cfg.mtu - 25 THEN LeftToRead ELSE cfg.mtu - 25

\* C9 as the code has it: a FileChunk of send_file carries the bytes left in
\* the file, up to mtu - 33: the mtu less the 14 bytes of the header and the
\* 19 bytes the message has before its content; with that it fits one
\* envelope, and with one byte more it would not.
C9_FileChunkSizing33 ==
    /\ (cfg.mtu >= 33) => (ContentMaxSize(cfg.mtu) = cfg.mtu - 33)
    /\ (snd.message.kind = "FileChunk") =>
          /\ snd.message.content_size =
                (IF LeftToRead < cfg.mtu - 33 THEN LeftToRead ELSE cfg.mtu - 33)
          /\ Len(snd.raw) = 19 + snd.message.content_size
          /\ FitsOneEnvelope
          /\ 19 + (cfg.mtu - 33) + 1 + HeaderSize > cfg.mtu

\* a FileChunk of mtu - 33 > 0 bytes went out, in a datagram of mtu bytes,
\* with bytes of the file left for the next
C9_Witness ==
    /\ snd.message.kind = "FileChunk"
    /\ snd.message.content_size = cfg.mtu - 33
    /\ snd.message.content_size > 0
    /\ LeftToRead > cfg.mtu - 33
    /\ wire # <<>>
    /\ Len(wire[1]) = cfg.mtu

\* the place in files of the file with this id
FileIndex(id) == CHOOSE k \in 1..Len(files) : files[k].id = id

\* the messages of send_files and send_done in their order: log[1] is
\* CountFilesToUpload with the number of files, log[2..n+1] are the File
\* notices of the n files in their order, the FileChunks come after them,
\* file by file, each for an id a File notice carried, and Done comes after
\* the zero-sized FileChunk of the last file and ends the log
InSendFilesOrder(log) ==
    LET n == Len(files)
        IsChunk(i) == log[i].kind = "FileChunk"
    IN  /\ \A i \in 1..Len(log) :
              log[i].kind \in {"CountFilesToUpload", "File", "FileChunk", "Done"}
        /\ \A i \in 1..Len(log) :
              log[i].kind = "CountFilesToUpload" <=> i = 1
        /\ Len(log) >= 1 => log[1].count = U64(n)
        /\ \A i \in 1..Len(log) :
              log[i].kind = "File" <=> i \in 2..(n + 1)
        /\ \A i \in 2..(n + 1) :
              i <= Len(log) => log[i].id = files[i - 1].id
        /\ \A j \in 1..Len(log) :
              IsChunk(j) =>
                  /\ \E i \in 1..(j - 1) : log[i].kind = "File" /\ log[i].id = log[j].id
                  /\ \A i \in 1..(j - 1) :
                        IsChunk(i) =>
                            /\ FileIndex(log[i].id) <= FileIndex(log[j].id)
                            /\ log[i].content_size = 0 =>
                                  FileIndex(log[j].id) = FileIndex(log[i].id) + 1
        /\ \A i \in 1..Len(log) :
              log[i].kind = "Done" =>
                  /\ i = Len(log)
                  /\ i >= n + 2
                  /\ n > 0 =>
                        /\ IsChunk(i - 1)
                        /\ log[i - 1].content_size = 0
                        /\ log[i - 1].id = files[n].id

ChunksOf(id) == SelectSeq(snd.log, LAMBDA e : e.kind = "FileChunk" /\ e.id = id)

\* the content sizes of the first j chunks, added
RECURSIVE SumSizes(_, _)
SumSizes(c, j) == IF j = 0 THEN 0 ELSE SumSizes(c, j - 1) + c[j].content_size

\* send_file has returned Ok for the k-th file
FileSent(k) ==
    \/ snd.pc \in {"done", "finished"}
    \/ snd.after \in {"done", "finished"} /\ snd.pc \in {"sending", "failed", "panicked"}
          /\ snd.message.kind = "Done"
    \/ snd.pc = "sent" /\ snd.idx >= k
    \/ snd.pc \in {"open", "chunk", "sending", "failed", "panicked"}
          /\ snd.log[Len(snd.log)].kind = "FileChunk"
          /\ FileIndex(snd.log[Len(snd.log)].id) > k

\* C13 (EOF sentinel): for every file the FileChunks of send_file have
\* offsets that start at 0 and are each the sum of the content sizes of the
\* chunks before; the FileChunk with content_size 0 is the last message of
\* the file, there is one once send_file has returned, and its offset is
\* the length of the file.
C13_EofSentinel ==
    \A k \in 1..Len(files) :
        LET c == ChunksOf(files[k].id)
        IN  /\ \A j \in 1..Len(c) :
                  /\ c[j].offset = U64(SumSizes(c, j - 1))
                  /\ c[j].content_size = 0 =>
                        /\ j = Len(c)
                        /\ c[j].offset = U64(Len(files[k].content))
            /\ FileSent(k) => c # <<>> /\ c[Len(c)].content_size = 0

----------------------------------------------------------------------------
(* Server and ClientHandler: src/src/connection/server.rs, for one peer *)

\* the components of the receiver's root directory, "/r"
Root == << <<114>> >>

\* Path::components of a relative or absolute name: the names between the
\* separators (47 is '/'), without the empty ones and the "." ones
RECURSIVE Components(_, _)
Components(name, current) ==
    IF name = <<>>
    THEN IF current \in {<<>>, <<46>>} THEN <<>> ELSE <<current>>
    ELSE IF name[1] = 47
         THEN (IF current \in {<<>>, <<46>>} THEN <<>> ELSE <<current>>)
              \o Components(Tail(name), <<>>)
         ELSE Components(Tail(name), Append(current, name[1]))

\* PathBuf::join: an absolute name replaces the base
PathJoin(base, name) ==
    IF name # <<>> /\ name[1] = 47
    THEN Components(name, <<>>)
    ELSE base \o Components(name, <<>>)

\* Path::starts_with: by whole components
StartsWith(path, base) ==
    Len(path) >= Len(base) /\ SubSeq(path, 1, Len(base)) = base

\* the addresses datagrams come from
Peers == {"A", "B"}

\* the address of the sender's socket
SenderAddr == "A"

\* most ClientHandler tasks the Server spawns
MaxTasks == 3

\* the ClientHandler recv_message creates for a peer, with its empty queue.
\* Four fields keep what the task has done: seen is the Messages it has
\* passed to process_message, trace what it has logged, kills how many
\* addresses it has sent to the kill queue, unread how many buffers its
\* receiver held when it was dropped.
HandlerNew(addr) ==
    [addr |-> addr, status |-> "running", queue |-> <<>>, keep_alive |-> None,
     reassembler |-> ReassemblerNew, opened_files |-> <<>>,
     seen |-> <<>>, trace |-> <<>>, kills |-> 0, unread |-> 0]

\* tracing::info!, warn! and error! of a handler
Log(h, event) == [h EXCEPT !.trace = Append(@, event)]

\* HashMap::insert and HashMap::remove
MapInsert(map, key, value) ==
    [k \in DOMAIN map \cup {key} |-> IF k = key THEN value ELSE map[k]]

MapRemove(map, key) == [k \in DOMAIN map \ {key} |-> map[k]]

\* a u64 of the wire is beyond what a file of the model can hold
Beyond32(x) == x[1] # 0 \/ x[2] # 0

\* the file system of the receiver, [files, dirs]: files maps the location of
\* a regular file (the names from "/" down) to its bytes, dirs holds the
\* directories made since the start; the root directory and the ones above
\* it are there from the start.  There are no links, and the receiver may
\* write wherever it asks to.
IsDir(f, loc) ==
    \/ loc \in f.dirs
    \/ Len(loc) <= Len(Root) /\ loc = SubSeq(Root, 1, Len(loc))

IsFile(f, loc) == loc \in DOMAIN f.files

\* what is wrong with a location that is not a directory
NotDirError(f, loc) == IF IsFile(f, loc) THEN "NotADirectory" ELSE "NotFound"

\* path resolution by the kernel, from the location loc along the
\* components: every component is looked up in a directory, ".." (46 46)
\* leads to the directory above: [res, loc]
RECURSIVE Walk(_, _, _)
Walk(f, components, loc) ==
    IF components = <<>> THEN [res |-> "Ok", loc |-> loc]
    ELSE IF ~IsDir(f, loc) THEN [res |-> NotDirError(f, loc), loc |-> loc]
    ELSE IF Head(components) = <<46, 46>>
         THEN Walk(f, Tail(components), IF loc = <<>> THEN loc ELSE SubSeq(loc, 1, Len(loc) - 1))
         ELSE Walk(f, Tail(components), Append(loc, Head(components)))

\* Path::parent: the path without its last component
Parent(path) == SubSeq(path, 1, Len(path) - 1)

\* symlink_metadata(path) and Path::is_dir: "Dir", "File" or the error
Metadata(f, path) ==
    LET w == Walk(f, path, <<>>) IN
    IF w.res # "Ok" THEN w.res
    ELSE IF IsDir(f, w.loc) THEN "Dir"
    ELSE IF IsFile(f, w.loc) THEN "File"
    ELSE "NotFound"

\* mkdir(path) after the walk to the directory it is made in (w is its
\* result): [res, fs]
MkdirIn(f, path, w) ==
    IF w.res # "Ok" THEN [res |-> w.res, fs |-> f]
    ELSE IF ~IsDir(f, w.loc) THEN [res |-> NotDirError(f, w.loc), fs |-> f]
    ELSE IF path[Len(path)] = <<46, 46>> THEN [res |-> "AlreadyExists", fs |-> f]
    ELSE IF IsDir(f, Append(w.loc, path[Len(path)])) \/ IsFile(f, Append(w.loc, path[Len(path)]))
         THEN [res |-> "AlreadyExists", fs |-> f]
    ELSE [res |-> "Ok", fs |-> [f EXCEPT !.dirs = @ \cup {Append(w.loc, path[Len(path)])}]]

Mkdir(f, path) == MkdirIn(f, path, Walk(f, Parent(path), <<>>))

\* create_dir_all after a mkdir (m is its result): a directory that is there
\* is no error
MkdirOrThere(m, path) ==
    IF m.res = "Ok" THEN m
    ELSE IF Metadata(m.fs, path) = "Dir" THEN [res |-> "Ok", fs |-> m.fs]
    ELSE m

\* create_dir_all: mkdir, and on NotFound the parent first and mkdir again
RECURSIVE CreateDirAll(_, _)
CreateDirAll(f, path) ==
    IF path = <<>> THEN [res |-> "Ok", fs |-> f]
    ELSE IF Mkdir(f, path).res # "NotFound" THEN MkdirOrThere(Mkdir(f, path), path)
    ELSE IF CreateDirAll(f, Parent(path)).res # "Ok" THEN CreateDirAll(f, Parent(path))
    ELSE MkdirOrThere(Mkdir(CreateDirAll(f, Parent(path)).fs, path), path)

\* utils::fs::create_directories: [res, fs]; the assert! on a parent that is
\* not a directory panics
CreateDirectories(f, filename) ==
    CASE Metadata(f, Parent(filename)) = "Dir" -> [res |-> "Ok", fs |-> f]
      [] Metadata(f, Parent(filename)) = "File" -> [res |-> "Panic", fs |-> f]
      [] Metadata(f, Parent(filename)) = "NotFound" -> CreateDirAll(f, Parent(filename))
      [] OTHER -> [res |-> Metadata(f, Parent(filename)), fs |-> f]

\* File::create after the walk to its directory (w is its result): the file
\* is made, or emptied when it is there: [res, loc, fs]
FileCreateIn(f, filename, w) ==
    IF w.res # "Ok" THEN [res |-> w.res, loc |-> <<>>, fs |-> f]
    ELSE IF ~IsDir(f, w.loc) THEN [res |-> NotDirError(f, w.loc), loc |-> <<>>, fs |-> f]
    ELSE IF filename[Len(filename)] = <<46, 46>> \/ IsDir(f, Append(w.loc, filename[Len(filename)]))
         THEN [res |-> "IsADirectory", loc |-> <<>>, fs |-> f]
    ELSE [res |-> "Ok", loc |-> Append(w.loc, filename[Len(filename)]),
          fs |-> [f EXCEPT !.files = MapInsert(@, Append(w.loc, filename[Len(filename)]), <<>>)]]

FileCreate(f, filename) == FileCreateIn(f, filename, Walk(f, Parent(filename), <<>>))

\* File::set_len on the file File::create returned (c is its result): a
\* length the file system refuses leaves the file empty
SetLen(c, size) ==
    IF c.res # "Ok" THEN c
    ELSE IF Beyond32(size) THEN [c EXCEPT !.res = "FileTooLarge"]
    ELSE [c EXCEPT !.fs.files[c.loc] = [i \in 1..U64ToNat(size) |-> 0]]

\* utils::fs::create_file: [res, loc, fs]
CreateFile(f, filename, size) ==
    IF CreateDirectories(f, filename).res # "Ok"
    THEN [res |-> CreateDirectories(f, filename).res, loc |-> <<>>,
          fs |-> CreateDirectories(f, filename).fs]
    ELSE SetLen(FileCreate(CreateDirectories(f, filename).fs, filename), size)

\* a write that always goes to the end of the file
WriteAtEnd(content, pos, bytes) == content \o bytes

\* write_all at the position pos of a file: a hole before pos reads as zeros
WriteAt(content, pos, bytes) ==
    LET padded == IF pos > Len(content)
                  THEN content \o [i \in 1..(pos - Len(content)) |-> 0]
                  ELSE content
    IN  SubSeq(padded, 1, pos) \o bytes \o SubSeq(padded, pos + Len(bytes) + 1, Len(padded))

\* a process_message_file that makes the file but leaves opened_files to a
\* later task
FileCreatedUnregistered(h, m, c) ==
    IF c.res = "Panic" THEN [h |-> [h EXCEPT !.status = "panicked"], fs |-> c.fs]
    ELSE IF c.res # "Ok" THEN [h |-> Log(h, "error: Could not create file"), fs |-> c.fs]
    ELSE [h |-> Log(h, "info: Created file"), fs |-> c.fs]

\* process_message_file after create_file (c is its result): [h, fs]
FileCreated(h, m, c) ==
    IF c.res = "Panic" THEN [h |-> [h EXCEPT !.status = "panicked"], fs |-> c.fs]
    ELSE IF c.res # "Ok" THEN [h |-> Log(h, "error: Could not create file"), fs |-> c.fs]
    ELSE [h |-> Log([h EXCEPT !.opened_files =
                        MapInsert(@, m.id, [path |-> c.loc, pos |-> 0, file_offset |-> 0,
                                            written |-> 0, gaps |-> 0])],
                    "info: Created file"),
          fs |-> c.fs]

\* process_message_file without the starts_with test
ProcessMessageFileAnywhere(h, f, m) ==
    FileCreated(h, m, CreateFile(f, PathJoin(Root, m.filename), m.size))

\* process_message_file: [h, fs]
ProcessMessageFile(h, f, m) ==
    IF ~StartsWith(PathJoin(Root, m.filename), Root)
    THEN [h |-> Log(h, "warn: File not in root, ignoring"), fs |-> f]
    ELSE FileCreated(h, m, CreateFile(f, PathJoin(Root, m.filename), m.size))

\* write_chunk_to_file, its warnings: an all zero chunk, a chunk that is not
\* at file_offset
ChunkWarnings(f, offset, content) ==
    (IF \A i \in 1..Len(content) : content[i] = 0 THEN <<"warn: Got all zero chunk">> ELSE <<>>)
    \o (IF Beyond32(offset) \/ f.file_offset < U64ToNat(offset)
        THEN <<"warn: Must have missed a chunk (ahead)">>
        ELSE IF f.file_offset > U64ToNat(offset)
             THEN <<"warn: Must have missed a chunk (behind)">>
             ELSE <<>>)

\* write_chunk_to_file keeping the offset it had
WriteChunkToFileOffsetKept(f, files_, offset, content) ==
    [res |-> "Ok",
     f |-> [f EXCEPT !.pos = @ + Len(content), !.written = @ + Len(content)],
     fs |-> [files_ EXCEPT !.files[f.path] = WriteAt(@, f.pos, content)]]

\* write_chunk_to_file on an open file f = [path, pos, file_offset]:
\* [res, f, fs]; a seek the file system refuses leaves both as they were.
\* written counts the bytes written through f, gaps the chunks that were
\* not at file_offset.
WriteChunkToFile(f, files_, offset, content) ==
    IF Beyond32(offset)
    THEN [res |-> "InvalidInput", f |-> [f EXCEPT !.gaps = @ + 1], fs |-> files_]
    ELSE LET at == IF f.file_offset # U64ToNat(offset) THEN U64ToNat(offset) ELSE f.pos IN
         [res |-> "Ok",
          f |-> [f EXCEPT !.pos = at + Len(content),
                          !.file_offset = U64ToNat(offset) + Len(content),
                          !.written = @ + Len(content),
                          !.gaps = IF f.file_offset # U64ToNat(offset) THEN @ + 1 ELSE @],
          fs |-> [files_ EXCEPT !.files[f.path] = WriteAt(@, at, content)]]

\* process_message_file_chunk after the file was found open (w is the result
\* of write_chunk_to_file, warnings what it logged): [h, fs]
FileChunkWritten(h, id, w, warnings) ==
    [h |-> [h EXCEPT !.opened_files[id] = w.f,
                     !.trace = @ \o warnings
                               \o (IF w.res = "Ok" THEN <<>>
                                   ELSE <<"error: Could not write chunk">>)],
     fs |-> w.fs]

\* a process_message_file_chunk whose sentinel closes the file only when it
\* comes at the expected offset
ProcessMessageFileChunkAtEnd(h, files_, m) ==
    IF m.content_size = 0 /\ m.id \notin DOMAIN h.opened_files
    THEN [h |-> Log(h, "info: Done receiving"), fs |-> files_]
    ELSE IF m.content_size = 0
         THEN [h |-> Log([h EXCEPT !.opened_files =
                             IF Beyond32(m.offset)
                                \/ U64ToNat(m.offset) # h.opened_files[m.id].file_offset
                             THEN @ ELSE MapRemove(@, m.id)],
                         "info: Done receiving"),
               fs |-> files_]
    ELSE IF m.id \notin DOMAIN h.opened_files
         THEN [h |-> Log(h, "error: File was not opened"), fs |-> files_]
    ELSE FileChunkWritten(h, m.id,
            WriteChunkToFile(h.opened_files[m.id], files_, m.offset,
                             SubSeq(m.content, 1, m.content_size)),
            ChunkWarnings(h.opened_files[m.id], m.offset,
                          SubSeq(m.content, 1, m.content_size)))

\* a process_message_file_chunk that unwraps the entry of opened_files
ProcessMessageFileChunkUnwrap(h, files_, m) ==
    IF m.content_size = 0
    THEN [h |-> Log([h EXCEPT !.opened_files = MapRemove(@, m.id)], "info: Done receiving"),
          fs |-> files_]
    ELSE IF m.id \notin DOMAIN h.opened_files
         THEN [h |-> [h EXCEPT !.status = "panicked"], fs |-> files_]
    ELSE FileChunkWritten(h, m.id,
            WriteChunkToFile(h.opened_files[m.id], files_, m.offset,
                             SubSeq(m.content, 1, m.content_size)),
            ChunkWarnings(h.opened_files[m.id], m.offset,
                          SubSeq(m.content, 1, m.content_size)))

\* process_message_file_chunk: [h, fs]
ProcessMessageFileChunk(h, files_, m) ==
    IF m.content_size = 0
    THEN [h |-> Log([h EXCEPT !.opened_files = MapRemove(@, m.id)], "info: Done receiving"),
          fs |-> files_]
    ELSE IF m.id \notin DOMAIN h.opened_files
         THEN [h |-> Log(h, "error: File was not opened"), fs |-> files_]
    ELSE FileChunkWritten(h, m.id,
            WriteChunkToFile(h.opened_files[m.id], files_, m.offset,
                             SubSeq(m.content, 1, m.content_size)),
            ChunkWarnings(h.opened_files[m.id], m.offset,
                          SubSeq(m.content, 1, m.content_size)))

\* an addition of 1 that stays at 2^64 - 1
U64SaturatingInc(x) ==
    IF x[4] # LimbMax THEN <<x[1], x[2], x[3], x[4] + 1>>
    ELSE IF x[3] # LimbMax THEN <<x[1], x[2], x[3] + 1, 0>>
    ELSE IF x[2] # LimbMax THEN <<x[1], x[2] + 1, 0, 0>>
    ELSE IF x[1] # LimbMax THEN <<x[1] + 1, 0, 0, 0>>
    ELSE x

\* u64::wrapping_add(1)
U64WrappingInc(x) ==
    IF x[4] # LimbMax THEN <<x[1], x[2], x[3], x[4] + 1>>
    ELSE IF x[3] # LimbMax THEN <<x[1], x[2], x[3] + 1, 0>>
    ELSE IF x[2] # LimbMax THEN <<x[1], x[2] + 1, 0, 0>>
    ELSE <<(x[1] + 1) % TwoPow16, 0, 0, 0>>

\* process_message_keep_alive
ProcessMessageKeepAlive(h, id) ==
    IF h.keep_alive = None THEN [h EXCEPT !.keep_alive = Some(id)]
    ELSE IF id # U64WrappingInc(Unwrap(h.keep_alive))
         THEN Log([h EXCEPT !.keep_alive = Some(id)], "warn: Got bad keep alive id")
    ELSE [h EXCEPT !.keep_alive = Some(id)]

\* process_message: [h, fs, done]
ProcessMessage(h, files_, m) ==
    CASE m.kind = "Hello" ->
            [h |-> Log(h, "info: Received hello"), fs |-> files_, done |-> FALSE]
      [] m.kind = "KeepAlive" ->
            [h |-> ProcessMessageKeepAlive(h, m.id), fs |-> files_, done |-> FALSE]
      [] m.kind = "CountFilesToUpload" ->
            [h |-> Log(h, "info: Will receive files"), fs |-> files_, done |-> FALSE]
      [] m.kind = "File" ->
            [h |-> ProcessMessageFile(h, files_, m).h,
             fs |-> ProcessMessageFile(h, files_, m).fs, done |-> FALSE]
      [] m.kind = "FileChunk" ->
            [h |-> ProcessMessageFileChunk(h, files_, m).h,
             fs |-> ProcessMessageFileChunk(h, files_, m).fs, done |-> FALSE]
      [] m.kind = "Done" ->
            [h |-> Log(h, "info: Received done"), fs |-> files_, done |-> TRUE]

\* a process_buffer that logs the error of from_wire and lets the loop go on
ProcessParsedKeepsOn(h, files_, p) ==
    IF p.res # "Ok" THEN [h |-> Log(h, "error"), fs |-> files_, done |-> FALSE]
    ELSE IF p.rest # <<>>
         THEN ProcessMessage(Log([h EXCEPT !.seen = Append(@, p.message)],
                                 "warn: Got extra data"),
                             files_, p.message)
    ELSE ProcessMessage([h EXCEPT !.seen = Append(@, p.message)], files_, p.message)

\* process_buffer_internal after Message::from_wire (p is its result): any
\* error of from_wire, Incomplete too, leaves through `?` and process_buffer
\* logs it and returns true
ProcessParsed(h, files_, p) ==
    IF p.res # "Ok" THEN [h |-> Log(h, "error"), fs |-> files_, done |-> TRUE]
    ELSE IF p.rest # <<>>
         THEN ProcessMessage(Log([h EXCEPT !.seen = Append(@, p.message)],
                                 "warn: Got extra data"),
                             files_, p.message)
    ELSE ProcessMessage([h EXCEPT !.seen = Append(@, p.message)], files_, p.message)

\* process_buffer after push_data and the one get_next_data (g is its
\* result): [h, fs, done], or a panic of the task
ProcessReassembled(h, files_, g) ==
    IF g.res = "Panic" THEN [h |-> [h EXCEPT !.status = "panicked"], fs |-> files_, done |-> FALSE]
    ELSE IF g.res = "NoData"
         THEN [h |-> [h EXCEPT !.reassembler = g.r], fs |-> files_, done |-> FALSE]
    ELSE IF g.res # "Ok"
         THEN [h |-> Log([h EXCEPT !.reassembler = g.r], "error"), fs |-> files_, done |-> TRUE]
    ELSE ProcessParsed([h EXCEPT !.reassembler = g.r], files_, MessageFromWire(g.data))

\* process_buffer
ProcessBuffer(h, files_, buffer) ==
    ProcessReassembled(h, files_, GetNextData(PushData(h.reassembler, buffer)))

\* the capacity of a handler's queue and of the kill queue (channel_size)
ChannelSize == 2

\* a handler task that goes on with its loop when process_buffer says done
HandlerAfterDoneIgnored(b, queue) ==
    IF b.h.status = "panicked"
    THEN [b.h EXCEPT !.queue = <<>>, !.unread = Len(queue) - 1]
    ELSE [b.h EXCEPT !.queue = Tail(queue)]

\* the handler task after process_buffer (b is its result): on done it
\* leaves its loop with what is queued unread; a panic unwinds the task and
\* drops its receiver
HandlerAfter(b, queue) ==
    IF b.h.status = "panicked"
    THEN [b.h EXCEPT !.queue = <<>>, !.unread = Len(queue) - 1]
    ELSE IF b.done THEN [b.h EXCEPT !.status = "notifying", !.queue = Tail(queue)]
    ELSE [b.h EXCEPT !.queue = Tail(queue)]

\* handler tasks that keep one keep-alive id for all of them
HandlerTurnSharedKeepAlive(t) ==
    /\ hnd[t].status = "running"
    /\ hnd[t].queue # <<>>
    /\ \E b \in {ProcessBuffer(hnd[t], fs, Head(hnd[t].queue))} :
          /\ hnd' = [u \in 1..Len(hnd) |->
                        IF u = t THEN HandlerAfter(b, hnd[t].queue)
                        ELSE [hnd[u] EXCEPT !.keep_alive = b.h.keep_alive]]
          /\ fs' = b.fs
    /\ UNCHANGED <<overflow_checks, rvars, svars, cvars, srv>>

\* the handler task t, one turn of its loop: receiver.recv() has a buffer
HandlerTurn(t) ==
    /\ hnd[t].status = "running"
    /\ hnd[t].queue # <<>>
    /\ \E b \in {ProcessBuffer(hnd[t], fs, Head(hnd[t].queue))} :
          /\ hnd' = [hnd EXCEPT ![t] = HandlerAfter(b, hnd[t].queue)]
          /\ fs' = b.fs
    /\ UNCHANGED <<overflow_checks, rvars, svars, cvars, srv>>

HandlerTask == \E t \in 1..Len(hnd) : HandlerTurn(t)

\* the Server holds the Sender of the task t's queue
Mapped(t) == \E a \in DOMAIN srv.handlers : srv.handlers[a] = t

\* the handler task t: receiver.recv() returns None once the Server has
\* dropped the Sender and the queue is empty, and the loop ends
HandlerClosed ==
    \E t \in 1..Len(hnd) :
        /\ hnd[t].status = "running"
        /\ hnd[t].queue = <<>>
        /\ ~Mapped(t)
        /\ hnd' = [hnd EXCEPT ![t].status = "notifying"]
        /\ UNCHANGED <<overflow_checks, rvars, svars, cvars, srv, fs>>

\* the handler task t after its loop: kill_tx.send(client_addr) waits for
\* room in the kill queue, then the task ends and its receiver is dropped
\* with what it holds
HandlerNotify(t) ==
    /\ t \in 1..Len(hnd)
    /\ hnd[t].status = "notifying"
    /\ Len(srv.kill) < ChannelSize
    /\ srv' = [srv EXCEPT !.kill = Append(@, hnd[t].addr)]
    /\ hnd' = [hnd EXCEPT ![t] = Log([@ EXCEPT !.status = "ended", !.queue = <<>>,
                                               !.kills = @ + 1,
                                               !.unread = Len(hnd[t].queue)],
                                     "info: Handler done")]
    /\ UNCHANGED <<overflow_checks, rvars, svars, cvars, fs>>

HandlerNotifies == \E t \in 1..Len(hnd) : HandlerNotify(t)

\* recv_from into a buffer of mtu bytes
Received(d) == SubSeq(d, 1, IF Len(d) < cfg.mtu THEN Len(d) ELSE cfg.mtu)

\* recv_message on a datagram d from addr: the handlers map after
\* entry(addr).or_insert_with (the new task is the next of hnd)
HandlersEntry(addr) ==
    IF addr \in DOMAIN srv.handlers THEN srv.handlers
    ELSE MapInsert(srv.handlers, addr, Len(hnd) + 1)

\* a queue that hands out the newest buffer first
HandlersSentFirst(addr, d) ==
    LET tasks == IF addr \in DOMAIN srv.handlers THEN hnd ELSE Append(hnd, HandlerNew(addr))
        t == HandlersEntry(addr)[addr]
    IN  IF tasks[t].status \in {"running", "notifying"}
        THEN [tasks EXCEPT ![t].queue = <<Received(d)>> \o @]
        ELSE tasks

\* the tasks after or_insert_with and sender.send(buffer): the buffer is
\* queued to a task whose receiver is there
HandlersSent(addr, d) ==
    LET tasks == IF addr \in DOMAIN srv.handlers THEN hnd ELSE Append(hnd, HandlerNew(addr))
        t == HandlersEntry(addr)[addr]
    IN  IF tasks[t].status \in {"running", "notifying"}
        THEN [tasks EXCEPT ![t].queue = Append(@, Received(d))]
        ELSE tasks

\* sender.send(buffer) returns an error: the receiver of the task the map
\* has for addr was dropped
HandlerGone(addr) ==
    /\ addr \in DOMAIN srv.handlers
    /\ hnd[srv.handlers[addr]].status \notin {"running", "notifying"}

\* recv_message, when send does not wait: a datagram d comes from addr; the
\* peer's handler is created if the map has none; the datagram is queued to
\* it (when the task is gone the datagram is dropped with the map entry);
\* then at most one address is taken from the kill queue and its map entry
\* removed; recv_message returns Ok
RecvFrom(addr, d) ==
    /\ srv.result = "Ok"
    /\ srv.sending = None
    /\ addr \notin DOMAIN srv.handlers => Len(hnd) < MaxTasks
    /\ addr \in DOMAIN srv.handlers /\ hnd[srv.handlers[addr]].status \in {"running", "notifying"}
          => Len(hnd[srv.handlers[addr]].queue) < ChannelSize
    /\ hnd' = HandlersSent(addr, d)
    /\ \E sent \in {IF HandlerGone(addr) THEN MapRemove(srv.handlers, addr)
                    ELSE HandlersEntry(addr)} :
          srv' = [handlers |-> IF srv.kill # <<>> THEN MapRemove(sent, Head(srv.kill)) ELSE sent,
                  kill |-> IF srv.kill # <<>> THEN Tail(srv.kill) ELSE <<>>,
                  result |-> "Ok",
                  sending |-> None]

\* recv_message on a datagram d from addr whose handler has a full queue:
\* sender.send(buffer).await does not return, and recv_message with it
RecvBlocks(addr, d) ==
    /\ srv.result = "Ok"
    /\ srv.sending = None
    /\ addr \in DOMAIN srv.handlers
    /\ hnd[srv.handlers[addr]].status \in {"running", "notifying"}
    /\ Len(hnd[srv.handlers[addr]].queue) = ChannelSize
    /\ srv' = [srv EXCEPT !.sending = Some([addr |-> addr, buffer |-> Received(d)])]
    /\ UNCHANGED hnd

\* the tasks once the send that waited has returned: the buffer is queued to
\* a task whose receiver is there
SendReturned(w) ==
    IF hnd[srv.handlers[w.addr]].status \in {"running", "notifying"}
    THEN [hnd EXCEPT ![srv.handlers[w.addr]].queue = Append(@, w.buffer)]
    ELSE hnd

\* sender.send(buffer).await returns, with Ok once the handler has taken a
\* buffer from its queue, with an error once the handler has ended; then
\* recv_message goes on as above
SendResumes ==
    /\ srv.sending # None
    /\ hnd[srv.handlers[Unwrap(srv.sending).addr]].status \in {"running", "notifying"}
          => Len(hnd[srv.handlers[Unwrap(srv.sending).addr]].queue) < ChannelSize
    /\ hnd' = SendReturned(Unwrap(srv.sending))
    /\ \E sent \in {IF HandlerGone(Unwrap(srv.sending).addr)
                    THEN MapRemove(srv.handlers, Unwrap(srv.sending).addr)
                    ELSE srv.handlers} :
          srv' = [handlers |-> IF srv.kill # <<>> THEN MapRemove(sent, Head(srv.kill)) ELSE sent,
                  kill |-> IF srv.kill # <<>> THEN Tail(srv.kill) ELSE <<>>,
                  result |-> "Ok",
                  sending |-> None]
    /\ UNCHANGED <<overflow_checks, rvars, svars, cvars, fs>>

\* recv_message on the next datagram of the sender
RecvMessage ==
    /\ net # <<>>
    /\ RecvFrom(SenderAddr, Head(net))
    /\ net' = Tail(net)
    /\ UNCHANGED <<overflow_checks, rvars, cvars, cfg, files, snd, wire, fs>>

\* recv_message when recv_from returns an error: serve_forever returns it
RecvFails ==
    /\ srv.result = "Ok"
    /\ srv.sending = None
    /\ srv' = [srv EXCEPT !.result = "IO"]
    /\ UNCHANGED <<overflow_checks, rvars, svars, cvars, hnd, fs>>

TransferMtus == {42, 1024}

TransferFileLens == {0, 1, 9, 10, 1000}

InitE ==
    /\ overflow_checks \in BOOLEAN
    /\ ReassemblerIdle /\ CodecIdle /\ ReceiverIdle
    /\ cfg \in [mtu : TransferMtus, remission_count : 1..MaxR]
    /\ files \in {<<TestFile(1, len)>> : len \in TransferFileLens}
    /\ snd = ClientNew
    /\ wire = <<>>
    /\ net = <<>>

NextE ==
    \/ SendHello \/ SendCount \/ SendFileCreation \/ SendFileOpen
    \/ SendFileChunk \/ SendFileReturns \/ SendDone
    \/ EmitChunk \/ EmitDone
    \/ RecvMessage \/ HandlerTask \/ HandlerNotifies

\* one sender, a transport that loses and reorders nothing, the receiver
SpecE == InitE /\ [][NextE]_vars

\* the sender has finished and every datagram it sent has been received and
\* handled, or has found its handler gone
TransferComplete ==
    /\ snd.pc = "finished"
    /\ net = <<>>
    /\ \A t \in 1..Len(hnd) : hnd[t].status = "running" => hnd[t].queue = <<>>

\* the receiver's file of that name
ReceivedFile(filename) ==
    IF Walk(fs, PathJoin(Root, filename), <<>>).loc \in DOMAIN fs.files
    THEN Some(fs.files[Walk(fs, PathJoin(Root, filename), <<>>).loc])
    ELSE None

\* C1 (lossless transfer reconstructs the file): when the transport has
\* lost, reordered and damaged nothing and the whole session has been sent
\* and handled, the receiver's file holds the bytes of the sender's file, for
\* every file length and every number of datagrams.
C1_LosslessTransfer ==
    TransferComplete =>
        \A k \in 1..Len(files) : ReceivedFile(files[k].filename) = Some(files[k].content)

----------------------------------------------------------------------------
(* Message codec harness: to_wire, then from_wire on what it wrote *)

TestU64s == {U64(0), U64(1700000000), <<LimbMax, LimbMax, LimbMax, LimbMax - 1>>, <<1, 2, 3, 4>>}

TestTimes ==
    {[before_epoch |-> FALSE, secs |-> U64(0), nanos |-> 0],
     [before_epoch |-> FALSE, secs |-> U64(1700000000), nanos |-> 0],
     [before_epoch |-> FALSE, secs |-> U64(1700000000), nanos |-> 500],
     [before_epoch |-> TRUE, secs |-> U64(1), nanos |-> 0]}

\* "", "a", "e" with an acute accent, "/a"
TestNames == {<<>>, <<97>>, <<195, 169>>, <<47, 97>>}

TestContents == {<<>>, <<7>>, <<0, 9, 8>>}

TestContentSizes == {0, 1, 3, 4}

TestMessages ==
    {[kind |-> "Hello"], [kind |-> "Done"]}
    \cup {[kind |-> "KeepAlive", id |-> x] : x \in TestU64s}
    \cup {[kind |-> "CountFilesToUpload", count |-> x] : x \in TestU64s}
    \cup [kind : {"File"}, filename : TestNames, created : TestTimes,
          size : {U64(0), <<1, 2, 3, 4>>}, id : {U64(3), <<LimbMax, LimbMax, LimbMax, LimbMax - 1>>}]
    \cup [kind : {"FileChunk"}, id : {U64(3), <<LimbMax, LimbMax, LimbMax, LimbMax - 1>>},
          offset : {U64(0), <<1, 2, 3, 4>>}, content_size : TestContentSizes,
          content : TestContents]

\* message.to_wire(&mut raw_message)
ToWire ==
    /\ codec.encoded = None
    /\ codec' = [codec EXCEPT !.encoded = Some(MessageToWire(codec.m))]
    /\ UNCHANGED conf
    /\ UNCHANGED <<overflow_checks, rvars, svars, hvars>>

\* Message::from_wire(&raw_message[..])
FromWire ==
    /\ codec.encoded # None
    /\ Unwrap(codec.encoded).res = "Ok"
    /\ codec.decoded = None
    /\ codec' = [codec EXCEPT !.decoded = Some(MessageFromWire(Unwrap(codec.encoded).bytes))]
    /\ UNCHANGED conf
    /\ UNCHANGED <<overflow_checks, rvars, svars, hvars>>

InitC ==
    /\ overflow_checks \in BOOLEAN
    /\ ReassemblerIdle /\ SenderIdle /\ ReceiverIdle
    /\ codec \in [m : TestMessages, encoded : {None}, decoded : {None}]
    /\ ConfigIdle

NextC == ToWire \/ FromWire

SpecC == InitC /\ [][NextC]_vars

\* C10 as the text states it (message round-trip): to_wire succeeds on every
\* Message and from_wire of what it wrote returns the Message itself and no
\* remaining bytes.
C10_MessageRoundTrip ==
    /\ codec.encoded # None => Unwrap(codec.encoded).res = "Ok"
    /\ codec.decoded # None =>
          Unwrap(codec.decoded) = [res |-> "Ok", message |-> codec.m, rest |-> <<>>]

\* a Message as the wire carries it: a File's creation time in whole
\* seconds, a FileChunk's content cut to its first content_size bytes
AsCarried(m) ==
    CASE m.kind = "File" -> [m EXCEPT !.created.nanos = 0]
      [] m.kind = "FileChunk" -> [m EXCEPT !.content = SubSeq(m.content, 1, m.content_size)]
      [] OTHER -> m

\* C10 as the code has it: to_wire succeeds except on a File created before
\* the epoch (an error) and on a FileChunk whose content_size is more than
\* its content holds (a panic); from_wire of what it wrote leaves no bytes
\* and returns the Message as the wire carries it, which is the Message
\* itself when the creation time is in whole seconds and the content is
\* content_size bytes long.
C10_RoundTripAsCarried ==
    /\ codec.encoded # None =>
          /\ Unwrap(codec.encoded).res = "Time" <=>
                (codec.m.kind = "File" /\ codec.m.created.before_epoch)
          /\ Unwrap(codec.encoded).res = "Panic" <=>
                (codec.m.kind = "FileChunk" /\ codec.m.content_size > Len(codec.m.content))
          /\ Unwrap(codec.encoded).res \in {"Ok", "Time", "Panic"}
    /\ codec.decoded # None =>
          Unwrap(codec.decoded) = [res |-> "Ok", message |-> AsCarried(codec.m), rest |-> <<>>]

\* a File with a two-byte letter in its name and a creation time of whole
\* seconds came back as it went, and so did a FileChunk whose content is
\* content_size bytes long
C10_Witness ==
    /\ codec.decoded # None
    /\ Unwrap(codec.decoded).message = codec.m
    /\ \/ /\ codec.m.kind = "File"
          /\ codec.m.filename = <<195, 169>>
          /\ codec.m.created.secs # U64(0)
          /\ codec.m.size = <<1, 2, 3, 4>>
       \/ /\ codec.m.kind = "FileChunk"
          /\ codec.m.content = <<0, 9, 8>>
          /\ codec.m.offset = <<1, 2, 3, 4>>

(* Decoding harness: from_wire on bytes the codec did not write *)

\* first octets: the six tags, the two after them and the last octet value
TestTags == {0, 1, 2, 3, 4, 5, 6, 7, 255}

\* what follows the first octet: nothing, three octets, a File body whose
\* name is not UTF-8, and the bodies to_wire writes for the test messages
TestBodies ==
    {<<>>, <<0, 0, 0>>, <<0, 1, 255>> \o BE64(U64(1)) \o BE64(U64(2)) \o BE64(U64(3))}
    \cup {Tail(MessageToWire(m).bytes) : m \in {t \in TestMessages : MessageToWire(t).res = "Ok"}}

TestInputs == {<<>>} \cup {<<t>> \o b : t \in TestTags, b \in TestBodies}

\* a buffer holding bytes received, not yet parsed
InitD ==
    /\ overflow_checks \in BOOLEAN
    /\ ReassemblerIdle /\ SenderIdle /\ ReceiverIdle
    /\ codec \in [m : {[kind |-> "Hello"]},
                  encoded : {Some([res |-> "Ok", bytes |-> i]) : i \in TestInputs},
                  decoded : {None}]
    /\ ConfigIdle

NextD == FromWire

SpecD == InitD /\ [][NextD]_vars

\* C11 (unknown tags are parse errors): from_wire of a non-empty input whose
\* first octet is not in 0..5 is an error that carries no Message; for a
\* first octet in 0..5 the Message returned is of the variant the tag table
\* gives (0 Hello, 1 KeepAlive, 2 CountFilesToUpload, 3 File, 4 FileChunk,
\* 5 Done): always returned for the two tags without a body and for the two
\* u64 tags followed by eight octets, and for File and FileChunk whenever
\* the body parses.
C11_UnknownTags ==
    codec.decoded # None /\ Unwrap(codec.encoded).bytes # <<>> =>
        LET input == Unwrap(codec.encoded).bytes
            tag == input[1]
            r == Unwrap(codec.decoded)
            table == <<"Hello", "KeepAlive", "CountFilesToUpload", "File", "FileChunk", "Done">>
        IN  /\ tag \notin 0..5 => r = [res |-> "Error"]
            /\ tag \in 0..5 =>
                  /\ r.res \in {"Ok", "Incomplete", "Error"}
                  /\ r.res = "Ok" => r.message.kind = table[tag + 1]
                  /\ tag \in {0, 5} => r.res = "Ok"
                  /\ tag \in {1, 2} /\ Len(input) >= 9 => r.res = "Ok"
                  /\ tag \in {1, 2} /\ Len(input) < 9 => r.res = "Incomplete"

\* the octet 6 in front of a well-formed KeepAlive body was refused, and the
\* octet 4 in front of a FileChunk body gave a FileChunk
C11_Witness ==
    /\ codec.decoded # None
    /\ LET input == Unwrap(codec.encoded).bytes
       IN  \/ /\ input = <<6>> \o BE64(<<1, 2, 3, 4>>)
              /\ Unwrap(codec.decoded).res = "Error"
           \/ /\ Len(input) > 19 /\ input[1] = 4
              /\ Unwrap(codec.decoded).res = "Ok"
              /\ Unwrap(codec.decoded).message.kind = "FileChunk"

----------------------------------------------------------------------------
(* Reassembler harness: datagrams are pushed one at a time, each push       *)
(* followed by one get_next_data call, as process_buffer_internal does.     *)

\* most pushes in one run of the whole-datagram harness
MaxFeeds == 3

\* most pushes in one run of the harness that also splits a datagram
MaxPartialFeeds == 2

TestIds == {U32(0), U32(1), U32(2), U32Max}

TestPayloads == {<<>>, <<7>>, <<8, 9>>}

\* the one datagram Retransmit emits for a payload that fits: prepare_buffer
\* on a new Retransmit whose mtu leaves room for the whole payload
Envelope(id, payload) ==
    PrepareBuffer(RetransmitNew(payload, 1, Len(payload) + HeaderSize, id).rt).buffer

\* the Reassembler unwound by a panic takes no further call
Halted == out # <<>> /\ out[Len(out)].res = "Panic"

\* push_data then get_next_data
PushAndGet(bytes, entry) ==
    \E g \in {GetNextData(PushData(rsm, bytes))} :
    /\ rsm' = g.r
    /\ out' = Append(out, [res |-> g.res, data |-> g.data])
    /\ fed' = Append(fed, entry)

FeedWhole(id, payload, limit) ==
    /\ ~Halted
    /\ pending = None
    /\ Len(fed) < limit
    /\ PushAndGet(Envelope(id, payload),
                  [part |-> "whole", id |-> id, payload |-> payload, cut |-> 0])
    /\ UNCHANGED <<overflow_checks, pending, svars, cvars, hvars>>

\* the first k bytes of a datagram, 0 < k < its length
FeedPrefix(id, payload, k) ==
    /\ ~Halted
    /\ pending = None
    /\ Len(fed) < MaxPartialFeeds
    /\ \A i \in 1..Len(fed) : fed[i].part = "whole"
    /\ k > 0 /\ k < Len(Envelope(id, payload))
    /\ PushAndGet(SubSeq(Envelope(id, payload), 1, k),
                  [part |-> "prefix", id |-> id, payload |-> payload, cut |-> k])
    /\ pending' = Some(SubSeq(Envelope(id, payload), k + 1, Len(Envelope(id, payload))))
    /\ UNCHANGED <<overflow_checks, svars, cvars, hvars>>

\* the remaining bytes of the datagram whose prefix was pushed last
FeedRest ==
    /\ ~Halted
    /\ pending # None
    /\ PushAndGet(Unwrap(pending),
                  [part |-> "rest", id |-> fed[Len(fed)].id,
                   payload |-> fed[Len(fed)].payload, cut |-> fed[Len(fed)].cut])
    /\ pending' = None
    /\ UNCHANGED <<overflow_checks, svars, cvars, hvars>>

InitR ==
    /\ overflow_checks \in BOOLEAN
    /\ rsm = ReassemblerNew
    /\ fed = <<>>
    /\ out = <<>>
    /\ pending = None
    /\ SenderIdle /\ CodecIdle /\ ReceiverIdle

NextR == \E id \in TestIds, payload \in TestPayloads : FeedWhole(id, payload, MaxFeeds)

\* whole datagrams pushed to a fresh Reassembler
SpecR == InitR /\ [][NextR]_vars

NextP ==
    \/ \E id \in TestIds, payload \in TestPayloads : FeedWhole(id, payload, MaxPartialFeeds)
    \/ \E id \in TestIds, payload \in TestPayloads, k \in 1..(HeaderSize + 2) :
          FeedPrefix(id, payload, k)
    \/ FeedRest

\* whole datagrams, and one datagram pushed in two parts
SpecP == InitR /\ [][NextP]_vars

----------------------------------------------------------------------------
(* Properties of the Reassembler *)

NoDataResult == [res |-> "NoData", data |-> <<>>]

Yielded(payload) == [res |-> "Ok", data |-> payload]

AllWhole == \A i \in 1..Len(fed) : fed[i].part = "whole"

\* every push so far was a whole copy of the same datagram
SameDatagramFed ==
    /\ fed # <<>>
    /\ AllWhole
    /\ \A i \in 1..Len(fed) : fed[i].id = fed[1].id /\ fed[i].payload = fed[1].payload

\* C2: the same single-envelope datagram pushed k times to a fresh
\* Reassembler, each push followed by get_next_data, yields its payload at
\* the first call and a NoData result at every later call.
C2_DedupIdempotence ==
    (SameDatagramFed /\ Len(fed) >= 2) =>
        /\ out[1] = Yielded(fed[1].payload)
        /\ \A i \in 2..Len(out) : out[i] = NoDataResult

\* three whole datagrams carrying c1, c2, c1 with c1 # c2 were pushed
FedC1C2C1 ==
    /\ Len(fed) = 3
    /\ AllWhole
    /\ fed[1].payload = fed[3].payload
    /\ fed[1].payload # fed[2].payload

AllYielded == \A i \in 1..Len(fed) : out[i] = Yielded(fed[i].payload)

\* C3 as stated: datagrams carrying c1, c2, c1 (c1 # c2) pushed to a fresh
\* Reassembler yield c1, c2, c1, whatever their headers.
C3_DedupPreservation == FedC1C2C1 => AllYielded

IdsIncreasing ==
    /\ \A i \in 1..(Len(fed) - 1) : U32Cmp(fed[i].id, fed[i + 1].id) = "Less"
    /\ fed[Len(fed)].id # U32Max

\* C3, amended: datagrams carrying c1, c2, c1 (c1 # c2) whose header ids are
\* strictly increasing and below 2^32 - 1 yield c1, c2, c1: a datagram is
\* suppressed by its id, not by its payload.
C3_DedupPreservationById == (FedC1C2C1 /\ IdsIncreasing) => AllYielded

C3_Witness == FedC1C2C1 /\ IdsIncreasing /\ AllYielded

\* C4: pushing a proper prefix of a datagram to a fresh Reassembler gives a
\* NoData result and keeps the pushed bytes unread; pushing the remaining
\* bytes then yields the datagram's payload.
C4_PartialFramePatience ==
    (fed # <<>> /\ fed[1].part = "prefix") =>
        /\ out[1] = NoDataResult
        /\ Len(fed) = 1 =>
              GetData(rsm) = SubSeq(Envelope(fed[1].id, fed[1].payload), 1, fed[1].cut)
        /\ Len(fed) >= 2 => out[2] = Yielded(fed[1].payload)

----------------------------------------------------------------------------
(* Handler harness: peers whose datagrams each carry one Message, received *)
(* by recv_message as they are sent                                         *)

\* most datagrams a peer sends to one handler task
MaxSent == 3

\* the retransmit id of a peer's next datagram: it has sent one datagram for
\* every id below, to the task the Server has for it
PeerNextId(p) ==
    IF p \in DOMAIN srv.handlers /\ hnd[srv.handlers[p]].status = "running"
    THEN Len(hnd[srv.handlers[p]].queue)
         + (IF hnd[srv.handlers[p]].reassembler.expected_id = None THEN 0
            ELSE Unwrap(hnd[srv.handlers[p]].reassembler.expected_id)[2])
    ELSE 0

\* a peer sends a datagram while the queue of its handler has room, and
\* recv_message receives it
PeerSendsDatagram(p, d) ==
    /\ PeerNextId(p) < MaxSent
    /\ RecvFrom(p, d)
    /\ UNCHANGED <<overflow_checks, rvars, svars, cvars, fs>>

\* a peer sends the datagram of a payload
PeerSendsPayload(p, payload) == PeerSendsDatagram(p, Envelope(U32(PeerNextId(p)), payload))

\* a peer sends a Message
PeerSends(p, m) ==
    /\ MessageToWire(m).res = "Ok"
    /\ PeerSendsPayload(p, MessageToWire(m).bytes)

\* file names: "a", "/a", "../x", "d/../a"
TestFilenames == {<<97>>, <<47, 97>>, <<46, 46, 47, 120>>, <<100, 47, 46, 46, 47, 97>>}

\* File notices for one id, of 4 bytes
TestFileNotices ==
    [kind : {"File"}, filename : TestFilenames,
     created : {[before_epoch |-> FALSE, secs |-> U64(1700000000), nanos |-> 0]},
     size : {U64(4)}, id : {U64(3)}]

\* FileChunks for that id: one byte at 0, at 1 and at 2, two bytes at 1, a
\* zero byte at 0, one byte at an offset no seek accepts, the end of the file
TestFileChunks ==
    {[kind |-> "FileChunk", id |-> U64(3), offset |-> U64(0), content_size |-> 1, content |-> <<7>>],
     [kind |-> "FileChunk", id |-> U64(3), offset |-> U64(1), content_size |-> 1, content |-> <<8>>],
     [kind |-> "FileChunk", id |-> U64(3), offset |-> U64(2), content_size |-> 1, content |-> <<9>>],
     [kind |-> "FileChunk", id |-> U64(3), offset |-> U64(1), content_size |-> 2, content |-> <<5, 6>>],
     [kind |-> "FileChunk", id |-> U64(3), offset |-> U64(0), content_size |-> 1, content |-> <<0>>],
     [kind |-> "FileChunk", id |-> U64(3), offset |-> <<LimbMax, LimbMax, LimbMax, LimbMax>>,
      content_size |-> 1, content |-> <<4>>],
     [kind |-> "FileChunk", id |-> U64(3), offset |-> U64(3), content_size |-> 0, content |-> <<>>]}

PeerSendsFile == \E m \in TestFileNotices : PeerSends("A", m)

PeerSendsFileChunk == \E m \in TestFileChunks : PeerSends("A", m)

InitH ==
    /\ overflow_checks \in BOOLEAN
    /\ ReassemblerIdle /\ SenderIdle /\ CodecIdle /\ ReceiverIdle

NextH == PeerSendsFile \/ PeerSendsFileChunk \/ HandlerTask

\* one peer that sends File notices and FileChunks
SpecH == InitH /\ [][NextH]_vars

\* the task t takes a turn of its loop in this step
Turn(t) ==
    /\ hnd[t].status = "running"
    /\ hnd[t].queue # <<>>
    /\ Len(hnd'[t].queue) < Len(hnd[t].queue)

\* the turn of the task t passes a Message to process_message
Dispatches(t) == Turn(t) /\ Len(hnd'[t].seen) = Len(hnd[t].seen) + 1

\* that Message
Dispatched(t) == hnd'[t].seen[Len(hnd'[t].seen)]

\* C14 (path-escape refusal): when the handler is given a File message whose
\* root.join(filename) does not lie under root (an absolute filename, for
\* instance), it creates no file, writes nothing and leaves opened_files as
\* it was.
C14_PathEscapeRefusal ==
    [][\A t \in 1..Len(hnd) :
          (/\ Dispatches(t)
           /\ Dispatched(t).kind = "File"
           /\ ~StartsWith(PathJoin(Root, Dispatched(t).filename), Root))
          => /\ fs' = fs
             /\ hnd'[t].opened_files = hnd[t].opened_files]_vars

\* the File notice of "/a" was refused while the file of an earlier notice
\* was open: the file system holds that file alone
C14_Witness ==
    \E t \in 1..Len(hnd) :
        /\ Len(hnd[t].seen) = 2
        /\ hnd[t].seen[1].filename = <<97>>
        /\ hnd[t].seen[2].kind = "File"
        /\ hnd[t].seen[2].filename = <<47, 97>>
        /\ hnd[t].trace = <<"info: Created file", "warn: File not in root, ignoring">>
        /\ DOMAIN fs.files = {<< <<114>>, <<97>> >>}
        /\ DOMAIN hnd[t].opened_files = {U64(3)}

\* C15 (no `..` escape): every file the handler creates is located inside
\* root; a File message whose filename leads outside root through `..`
\* creates nothing.
C15_NoDotDotEscape == \A loc \in DOMAIN fs.files : StartsWith(loc, Root)

\* the Messages of C16: a File notice with a name under root, K > 0 bytes at
\* 0, K bytes at 2K, for the same id, and an announced size of 3K or more
HoleCase(s) ==
    /\ Len(s) = 3
    /\ s[1].kind = "File" /\ s[2].kind = "FileChunk" /\ s[3].kind = "FileChunk"
    /\ StartsWith(PathJoin(Root, s[1].filename), Root)
    /\ s[2].id = s[1].id /\ s[3].id = s[1].id
    /\ s[2].content_size > 0
    /\ s[3].content_size = s[2].content_size
    /\ s[2].offset = U64(0)
    /\ s[3].offset = U64(2 * s[2].content_size)
    /\ ~Beyond32(s[1].size)
    /\ U64ToNat(s[1].size) >= 3 * s[2].content_size

\* C16 (hole policy): after File{size >= 3K} and FileChunks of K bytes at the
\* offsets 0 and 2K, the file holds the first chunk in its first K bytes,
\* zeros in [K, 2K) and the second chunk in [2K, 3K), and its length is the
\* announced size.
C16_HolePolicy ==
    \A t \in 1..Len(hnd) :
        HoleCase(hnd[t].seen) =>
            LET s == hnd[t].seen
                K == s[2].content_size
            IN  /\ s[1].id \in DOMAIN hnd[t].opened_files
                /\ hnd[t].opened_files[s[1].id].path \in DOMAIN fs.files
                /\ LET c == fs.files[hnd[t].opened_files[s[1].id].path]
                   IN  /\ Len(c) = U64ToNat(s[1].size)
                       /\ SubSeq(c, 1, K) = s[2].content
                       /\ \A i \in (K + 1)..(2 * K) : c[i] = 0
                       /\ SubSeq(c, 2 * K + 1, 3 * K) = s[3].content

\* a file announced with 4 bytes holds 7, 0, 9, 0 after the byte 7 at 0 and
\* the byte 9 at 2
C16_Witness ==
    \E t \in 1..Len(hnd) :
        /\ HoleCase(hnd[t].seen)
        /\ hnd[t].seen[1].filename = <<97>>
        /\ fs.files[<< <<114>>, <<97>> >>] = <<7, 0, 9, 0>>

\* the handler logged that it could not write the chunk
WriteFailed(t) ==
    /\ hnd'[t].trace # <<>>
    /\ hnd'[t].trace[Len(hnd'[t].trace)] = "error: Could not write chunk"

\* C17 (expected-offset invariant): the offset kept for an open file is 0
\* after its File message and offset + content_size after every FileChunk
\* with content that was written to it, and so it is the number of bytes
\* written to the file as long as every chunk came at the offset kept.
C17_ExpectedOffset ==
    /\ [](\A t \in 1..Len(hnd) : \A id \in DOMAIN hnd[t].opened_files :
            hnd[t].opened_files[id].gaps = 0 =>
                hnd[t].opened_files[id].file_offset = hnd[t].opened_files[id].written)
    /\ [][\A t \in 1..Len(hnd) :
            Dispatches(t) =>
                /\ (/\ Dispatched(t).kind = "File"
                    /\ hnd'[t].opened_files # hnd[t].opened_files)
                   => hnd'[t].opened_files[Dispatched(t).id].file_offset = 0
                /\ (/\ Dispatched(t).kind = "FileChunk"
                    /\ Dispatched(t).content_size > 0
                    /\ Dispatched(t).id \in DOMAIN hnd[t].opened_files
                    /\ ~WriteFailed(t))
                   => U64(hnd'[t].opened_files[Dispatched(t).id].file_offset)
                        = U64(U64ToNat(Dispatched(t).offset) + Dispatched(t).content_size)]_vars

\* three bytes were written in two chunks, each at the offset kept, and the
\* offset kept is 3; and a chunk that came at another offset moved it
C17_Witness ==
    \E t \in 1..Len(hnd) :
        /\ U64(3) \in DOMAIN hnd[t].opened_files
        /\ \/ /\ hnd[t].opened_files[U64(3)].file_offset = 3
              /\ hnd[t].opened_files[U64(3)].written = 3
              /\ hnd[t].opened_files[U64(3)].gaps = 0
           \/ /\ hnd[t].opened_files[U64(3)].file_offset = 3
              /\ hnd[t].opened_files[U64(3)].written = 1
              /\ hnd[t].opened_files[U64(3)].gaps = 1

\* KeepAlive ids: 5, 6, 7, 2^16 - 1, 2^16, 2^64 - 1, 0
TestKeepAliveIds ==
    {U64(5), U64(6), U64(7), <<0, 0, 0, LimbMax>>, <<0, 0, 1, 0>>,
     <<LimbMax, LimbMax, LimbMax, LimbMax>>, U64(0)}

PeerSendsKeepAlive ==
    \E id \in TestKeepAliveIds : PeerSends("A", [kind |-> "KeepAlive", id |-> id])

NextK == PeerSendsKeepAlive \/ HandlerTask

\* one peer that sends KeepAlives
SpecK == InitH /\ [][NextK]_vars

\* y = x + 1 modulo 2^64: the k last limbs of x are full and those of y are
\* 0, and the limb before them is one more in y
IsNext(x, y) ==
    \E k \in 0..4 :
        /\ \A i \in (5 - k)..4 : x[i] = LimbMax /\ y[i] = 0
        /\ k < 4 => /\ x[4 - k] < LimbMax
                    /\ y[4 - k] = x[4 - k] + 1
                    /\ \A i \in 1..(3 - k) : y[i] = x[i]

\* how many times the handler warned of a bad keep alive id
KeepAliveWarnings(t) ==
    Cardinality({i \in 1..Len(hnd[t].trace) : hnd[t].trace[i] = "warn: Got bad keep alive id"})

\* C18 (KeepAlive rule): the first KeepAlive id is stored without a warning;
\* every later KeepAlive(id) warns exactly when id is not the id before it
\* plus 1 modulo 2^64, and is always stored; so a, a + 2 give one warning,
\* a, a + 1 none, and 2^64 - 1 followed by 0 none.
C18_KeepAliveRule ==
    \A t \in 1..Len(hnd) :
        LET s == hnd[t].seen IN
        (\A i \in 1..Len(s) : s[i].kind = "KeepAlive") =>
            /\ KeepAliveWarnings(t)
                  = Cardinality({i \in 2..Len(s) : ~IsNext(s[i - 1].id, s[i].id)})
            /\ hnd[t].keep_alive = IF s = <<>> THEN None ELSE Some(s[Len(s)].id)
            /\ Len(s) = 2 /\ s[1].id = U64(5) /\ s[2].id = U64(7) => KeepAliveWarnings(t) = 1
            /\ Len(s) = 2 /\ s[1].id = U64(5) /\ s[2].id = U64(6) => KeepAliveWarnings(t) = 0
            /\ Len(s) = 2 /\ s[1].id = <<LimbMax, LimbMax, LimbMax, LimbMax>> /\ s[2].id = U64(0)
                  => KeepAliveWarnings(t) = 0

\* 2^64 - 1, then 0, then 5: one warning, for the 5
C18_Witness ==
    \E t \in 1..Len(hnd) :
        /\ Len(hnd[t].seen) = 3
        /\ hnd[t].seen[1] = [kind |-> "KeepAlive", id |-> <<LimbMax, LimbMax, LimbMax, LimbMax>>]
        /\ hnd[t].seen[2] = [kind |-> "KeepAlive", id |-> U64(0)]
        /\ hnd[t].seen[3] = [kind |-> "KeepAlive", id |-> U64(5)]
        /\ hnd[t].keep_alive = Some(U64(5))
        /\ KeepAliveWarnings(t) = 1

\* datagrams a handler ends on, with the retransmit id n: a wrong magic, a
\* header whose offset + size is above its total_size, a Message of kind 9
BadDatagrams(n) ==
    {<<0>> \o Tail(Envelope(U32(n), <<0>>)),
     RETRANSMIT_MAGIC \o BE16(5) \o BE16(1) \o BE16(1) \o BE32(U32(n)) \o <<0>>,
     Envelope(U32(n), <<9>>)}

\* most datagrams a peer sends to one handler task when there are two peers
MaxRouted == 1

\* the peer p sends nothing while its handler is between its loop and its
\* post on the kill queue
Settled(p) ==
    IF p \in DOMAIN srv.handlers THEN hnd[srv.handlers[p]].status # "notifying" ELSE TRUE

PeerSendsHello ==
    \E p \in Peers :
        Settled(p) /\ PeerNextId(p) < MaxRouted /\ PeerSends(p, [kind |-> "Hello"])

PeerSendsBad ==
    \E d \in BadDatagrams(PeerNextId("A")) :
        Settled("A") /\ PeerNextId("A") < MaxRouted /\ PeerSendsDatagram("A", d)

NextM ==
    \/ PeerSendsHello \/ PeerSendsBad
    \/ HandlerTask \/ HandlerNotifies
    \/ RecvFails

\* two peers that send Hello, one of them also datagrams no handler accepts:
\* only its handlers end, so that the kill queue never holds the address of
\* a peer whose handler has been replaced, and no running handler loses its
\* place in the map
SpecM == InitH /\ [][NextM]_vars

----------------------------------------------------------------------------
(* Session harness: one peer that sends Hello, file counts and Done until *)
(* its handler has ended                                                  *)

PeerSendsSession ==
    /\ \A t \in 1..Len(hnd) : hnd[t].status # "ended"
    /\ \E m \in {[kind |-> "Hello"], [kind |-> "CountFilesToUpload", count |-> U64(1)],
                  [kind |-> "Done"]} : PeerSends("A", m)

NextF == PeerSendsSession \/ HandlerTask \/ HandlerNotifies

\* one peer whose session ends with Done, and may go on after it; the
\* runtime goes on polling a spawned task whose kill_tx.send can complete
SpecF == InitH /\ [][NextF]_vars /\ \A t \in 1..MaxTasks : WF_vars(HandlerNotify(t))

Fails(t) ==
    /\ Turn(t)
    /\ Len(hnd'[t].trace) = Len(hnd[t].trace) + 1
    /\ hnd'[t].trace[Len(hnd'[t].trace)] = "error"

\* C20 (error containment): the turn in which a handler meets an error (a
\* wrong magic, a malformed header, an unknown tag) leaves its loop, and
\* changes no other task, no file, neither the handlers map nor the kill
\* queue, nor what recv_message returns; no step of a handler makes
\* recv_message return an error; and the datagrams received afterwards are
\* routed as before, a datagram of a peer without handler getting a new one.
C20_ErrorContainment ==
    [][/\ \A t \in 1..Len(hnd) :
            Fails(t) => /\ hnd'[t].status = "notifying"
                        /\ hnd'[t].seen = hnd[t].seen
                        /\ Len(hnd') = Len(hnd)
                        /\ \A u \in 1..Len(hnd) : u # t => hnd'[u] = hnd[u]
                        /\ srv' = srv
                        /\ fs' = fs
       /\ srv.result = "Ok" /\ srv'.result # "Ok" => hnd' = hnd
       /\ \A p \in Peers :
            p \notin DOMAIN srv.handlers /\ Len(hnd') = Len(hnd) + 1 /\ hnd'[Len(hnd')].addr = p
                => /\ hnd'[Len(hnd')].status = "running"
                   /\ Len(hnd'[Len(hnd')].queue) = 1
                   /\ srv'.result = "Ok"]_vars

\* the first task, of the peer A, has ended on an error of its first
\* datagram; recv_message still returns Ok; a later task of A and a task of
\* B have each handled a Hello and go on
C20_Witness ==
    /\ Len(hnd) = 3
    /\ hnd[1].addr = "A" /\ hnd[1].status = "ended" /\ hnd[1].seen = <<>>
    /\ hnd[1].trace = <<"error", "info: Handler done">>
    /\ srv.result = "Ok"
    /\ \E t \in 2..3 : /\ hnd[t].addr = "A" /\ hnd[t].status = "running"
                        /\ hnd[t].seen = <<[kind |-> "Hello"]>>
    /\ \E t \in 2..3 : /\ hnd[t].addr = "B" /\ hnd[t].status = "running"
                        /\ hnd[t].seen = <<[kind |-> "Hello"]>>

----------------------------------------------------------------------------
(* Truncation harness: one peer whose datagrams stop short *)

\* payloads that end inside a Message: a KeepAlive without its id, a
\* CountFilesToUpload with 2 bytes of count, a File with half a length, a
\* FileChunk with its id alone
TruncatedPayloads == {<<1>>, <<2, 0, 0>>, <<3, 0>>, <<4>> \o BE64(U64(3))}

PeerSendsTruncated ==
    /\ \A t \in 1..Len(hnd) : hnd[t].status # "ended"
    /\ \E payload \in TruncatedPayloads : PeerSendsPayload("A", payload)

\* the first datagram of the peer has 6 bytes, the start of a header
PeerSendsHeaderPart ==
    /\ hnd = <<>>
    /\ PeerSendsDatagram("A", SubSeq(Envelope(U32(PeerNextId("A")), <<0>>), 1, 6))

NextB ==
    \/ PeerSendsTruncated \/ PeerSendsHeaderPart \/ PeerSendsSession
    \/ HandlerTask \/ HandlerNotifies

\* one peer whose session holds truncated Messages and parts of headers
SpecB == InitH /\ [][NextB]_vars

\* get_next_data has no data yet, or from_wire answers Incomplete
Benign(g) == g.res = "NoData" \/ (g.res = "Ok" /\ MessageFromWire(g.data).res = "Incomplete")

\* the turn of the task t meets NoData or Incomplete
Absorbs(t) ==
    /\ Turn(t)
    /\ Benign(GetNextData(PushData(hnd[t].reassembler, Head(hnd[t].queue))))

\* C21 (benign errors): a turn whose datagram gives NoData, or a Message
\* that from_wire finds Incomplete, does not end the session: the handler
\* stays in its loop with the Messages it has seen, its keep-alive id and
\* its opened files as they were.
C21_BenignErrors ==
    [][\A t \in 1..Len(hnd) :
          Absorbs(t) => /\ hnd'[t].status = "running"
                        /\ hnd'[t].seen = hnd[t].seen
                        /\ hnd'[t].keep_alive = hnd[t].keep_alive
                        /\ hnd'[t].opened_files = hnd[t].opened_files]_vars

----------------------------------------------------------------------------
(* Backpressure harness: two peers that number their datagrams, and send *)
(* also to a handler whose queue is full                                 *)

\* the n-th datagram of a peer, counted from 0: a KeepAlive of id n
Numbered(n) ==
    Envelope(U32(n), MessageToWire([kind |-> "KeepAlive", id |-> U64(n)]).bytes)

PeerSendsNumbered ==
    \E p \in Peers :
        /\ PeerNextId(p) < MaxSent
        /\ PeerSendsDatagram(p, Numbered(PeerNextId(p)))

\* a peer sends a datagram while the queue of its handler is full
PeerSendsToFull ==
    \E p \in Peers :
        /\ PeerNextId(p) < MaxSent
        /\ RecvBlocks(p, Numbered(PeerNextId(p)))
        /\ UNCHANGED <<overflow_checks, rvars, svars, cvars, fs>>

NextQ == PeerSendsNumbered \/ PeerSendsToFull \/ SendResumes \/ HandlerTask

\* two peers, handlers that take their datagrams at any pace
SpecQ == InitH /\ [][NextQ]_vars

\* C22 (no stall): the dispatcher never waits for a handler: recv_message
\* is never inside sender.send, so that whenever a datagram of any peer
\* arrives the dispatcher is at recv_from to receive and route it.
C22_NoStall == srv.sending = None

\* C23 (per-peer FIFO): the handler of a peer is given that peer's
\* datagrams in the order recv_message received them, whatever the order in
\* which the two peers' datagrams arrive and the handlers run: the i-th
\* Message it handles is the peer's i-th, and its queue holds the following
\* ones in order.
C23_PerPeerFifo ==
    \A t \in 1..Len(hnd) :
        /\ \A i \in 1..Len(hnd[t].seen) :
              hnd[t].seen[i] = [kind |-> "KeepAlive", id |-> U64(i - 1)]
        /\ \A j \in 1..Len(hnd[t].queue) :
              hnd[t].queue[j] = Numbered(Len(hnd[t].seen) + j - 1)

\* the handlers of A and of B have each handled every datagram of their peer
C23_Witness ==
    /\ Len(hnd) = 2
    /\ hnd[1].addr # hnd[2].addr
    /\ \A t \in 1..2 : Len(hnd[t].seen) = MaxSent /\ hnd[t].queue = <<>>

----------------------------------------------------------------------------
(* Eviction harness: two peers whose sessions end, and start again *)

PeerSendsDone ==
    \E p \in Peers :
        Settled(p) /\ PeerNextId(p) < MaxRouted /\ PeerSends(p, [kind |-> "Done"])

NextT ==
    \/ PeerSendsHello \/ PeerSendsDone
    \/ HandlerTask \/ HandlerNotifies \/ HandlerClosed

\* two peers that send Hello and Done
SpecT == InitH /\ [][NextT]_vars

\* a step of recv_message: a task is spawned, a buffer is queued, or a map
\* entry goes
Iterates ==
    \/ Len(hnd') > Len(hnd)
    \/ srv'.handlers # srv.handlers
    \/ \E t \in 1..Len(hnd) : Len(hnd'[t].queue) > Len(hnd[t].queue)

\* C24 (kill-queue drain): every recv_message takes all the addresses that
\* are on the kill queue, so that the kill queue is empty when it returns.
C24_KillQueueDrain == [][Iterates => srv'.kill = <<>>]_vars

----------------------------------------------------------------------------
(* Isolation harness: two peers that each send one file under the same id *)

\* what a peer sends: a KeepAlive, the notice of a file of 2 bytes with the
\* id 3, its bytes, the end of the file
Script(p) ==
    <<[kind |-> "KeepAlive", id |-> IF p = "A" THEN U64(5) ELSE U64(9)],
      [kind |-> "File", filename |-> IF p = "A" THEN <<97>> ELSE <<98>>,
       created |-> [before_epoch |-> FALSE, secs |-> U64(1700000000), nanos |-> 0],
       size |-> U64(2), id |-> U64(3)],
      [kind |-> "FileChunk", id |-> U64(3), offset |-> U64(0), content_size |-> 2,
       content |-> IF p = "A" THEN <<7, 8>> ELSE <<1, 2>>],
      [kind |-> "FileChunk", id |-> U64(3), offset |-> U64(2), content_size |-> 0,
       content |-> <<>>]>>

\* the datagram of the n-th Message of the peer p, counted from 0
ScriptDatagram(p, n) == Envelope(U32(n), MessageToWire(Script(p)[n + 1]).bytes)

PeerSendsScript ==
    \E p \in Peers :
        /\ PeerNextId(p) < Len(Script(p))
        /\ RecvFrom(p, ScriptDatagram(p, PeerNextId(p)))
        /\ UNCHANGED <<overflow_checks, rvars, svars, cvars, fs>>

NextI == PeerSendsScript \/ HandlerTask

\* two peers whose datagrams arrive in any order
SpecI == InitH /\ [][NextI]_vars

AloneNext(b, d) == ProcessBuffer(b.h, b.fs, d)

\* the handler of the peer p and the files after the first k datagrams of p,
\* when p is the only peer
RECURSIVE Alone(_, _)
Alone(p, k) ==
    IF k = 0 THEN [h |-> HandlerNew(p), fs |-> [files |-> <<>>, dirs |-> {}], done |-> FALSE]
    ELSE AloneNext(Alone(p, k - 1), ScriptDatagram(p, k - 1))

\* the file of that name in the files f
FileIn(f, filename) ==
    IF Walk(f, PathJoin(Root, filename), <<>>).loc \in DOMAIN f.files
    THEN Some(f.files[Walk(f, PathJoin(Root, filename), <<>>).loc])
    ELSE None

\* the handler h and the file of its peer are what b has
AsAlone(h, b) ==
    /\ h.seen = b.h.seen
    /\ h.trace = b.h.trace
    /\ h.reassembler = b.h.reassembler
    /\ h.keep_alive = b.h.keep_alive
    /\ h.opened_files = b.h.opened_files
    /\ FileIn(fs, Script(h.addr)[2].filename) = FileIn(b.fs, Script(h.addr)[2].filename)

\* C25 (handler isolation): with two peers that send files of different
\* names under the same file id and whose datagrams arrive in any order, a step changes at most one handler,
\* and every handler has at every moment the reassembler, the keep-alive
\* id, the opened files with their offsets, and the file on disk that it
\* would have after the same datagrams of its peer with no other peer.
C25_HandlerIsolation ==
    /\ [](\A t \in 1..Len(hnd) : AsAlone(hnd[t], Alone(hnd[t].addr, Len(hnd[t].seen))))
    /\ [][\A t, u \in 1..Len(hnd) : t # u => hnd'[t] = hnd[t] \/ hnd'[u] = hnd[u]]_vars

\* both peers have sent everything, both handlers have handled it, and each
\* file holds its peer's bytes
C25_Witness ==
    /\ Len(hnd) = 2
    /\ \A t \in 1..2 : Len(hnd[t].seen) = 4 /\ hnd[t].queue = <<>>
                        /\ hnd[t].opened_files = <<>>
    /\ FileIn(fs, <<97>>) = Some(<<7, 8>>)
    /\ FileIn(fs, <<98>>) = Some(<<1, 2>>)
    /\ \E t \in 1..2 : hnd[t].addr = "A" /\ hnd[t].keep_alive = Some(U64(5))
    /\ \E t \in 1..2 : hnd[t].addr = "B" /\ hnd[t].keep_alive = Some(U64(9))

----------------------------------------------------------------------------
(* Config: src/src/config.rs.  A line is the sequence of its characters, *)
(* as ASCII codes; a stream is the sequence of its lines.                *)

\* Config::default, recv_timeout in seconds
ConfigDefault == [remission_count |-> 3, mtu |-> 1024, recv_timeout |-> 3]

\* char::is_whitespace, on ASCII
IsSpace(c) == c \in {9, 10, 11, 12, 13, 32}

RECURSIVE TrimEnd(_)
TrimEnd(line) ==
    IF line # <<>> /\ IsSpace(line[Len(line)]) THEN TrimEnd(SubSeq(line, 1, Len(line) - 1))
    ELSE line

RECURSIVE TrimStart(_)
TrimStart(line) == IF line # <<>> /\ IsSpace(line[1]) THEN TrimStart(Tail(line)) ELSE line

Trim(line) == TrimStart(TrimEnd(line))

\* line.find('='): the place of the first '=', 0 when there is none
FindEq(line) ==
    IF \E i \in 1..Len(line) : line[i] = 61
    THEN CHOOSE i \in 1..Len(line) : line[i] = 61 /\ \A j \in 1..(i - 1) : line[j] # 61
    ELSE 0

\* is_valid_key: ASCII letters and digits, '_' and '-'
IsValidKey(key) ==
    \A i \in 1..Len(key) : key[i] \in (48..57) \cup (65..90) \cup (97..122) \cup {95, 45}

ToAsciiLowercase(c) == IF c \in 65..90 THEN c + 32 ELSE c

\* str::eq_ignore_ascii_case
EqIgnoreAsciiCase(a, b) ==
    Len(a) = Len(b) /\ \A i \in 1..Len(a) : ToAsciiLowercase(a[i]) = ToAsciiLowercase(b[i])

RECURSIVE DigitsValue(_)
DigitsValue(digits) ==
    IF digits = <<>> THEN 0
    ELSE DigitsValue(SubSeq(digits, 1, Len(digits) - 1)) * 10 + (digits[Len(digits)] - 48)

\* the digits of a value, after the '+' that str::parse accepts
Unsigned(value) == IF value # <<>> /\ value[1] = 43 THEN Tail(value) ELSE value

\* value.parse() to usize or u64, for values of a few digits
ParseValue(value) ==
    IF Unsigned(value) = <<>> \/ \E i \in 1..Len(Unsigned(value)) : Unsigned(value)[i] \notin 48..57
    THEN [res |-> "ParseInt"]
    ELSE [res |-> "Ok", value |-> DigitsValue(Unsigned(value))]

\* parse_line after '=' was found at eq
ParseKeyValue(line, eq) ==
    IF ~IsValidKey(TrimEnd(SubSeq(line, 1, eq - 1))) THEN [kind |-> "None"]
    ELSE IF Trim(SubSeq(line, eq + 1, Len(line))) = <<>> THEN [kind |-> "None"]
    ELSE [kind |-> "KeyValue", key |-> TrimEnd(SubSeq(line, 1, eq - 1)),
          value |-> Trim(SubSeq(line, eq + 1, Len(line)))]

\* Config::parse_line, of a line that is not empty
ParseLine(line) ==
    IF line[1] \in {35, 59} THEN [kind |-> "Comment"]
    ELSE IF FindEq(line) # 0 THEN ParseKeyValue(line, FindEq(line))
    ELSE IF line[1] = 91 /\ line[Len(line)] = 93
         THEN IF IsValidKey(SubSeq(line, 2, Len(line) - 1)) THEN [kind |-> "Section"]
              ELSE [kind |-> "None"]
    ELSE IF IsValidKey(Trim(line)) THEN [kind |-> "Key"]
    ELSE [kind |-> "None"]

\* the field that a parsed value sets
ConfigWith(config, field, parsed) ==
    IF parsed.res # "Ok" THEN [res |-> "ParseInt"]
    ELSE [res |-> "Ok", config |-> [config EXCEPT ![field] = parsed.value]]

\* parse_stream on Line::KeyValue(key, value): remission_count, mtu,
\* recv_timeout, key (todo!), any other key
ConfigSet(config, key, value) ==
    IF EqIgnoreAsciiCase(key, <<114, 101, 109, 105, 115, 115, 105, 111, 110, 95, 99, 111, 117, 110, 116>>)
    THEN ConfigWith(config, "remission_count", ParseValue(value))
    ELSE IF EqIgnoreAsciiCase(key, <<109, 116, 117>>)
    THEN ConfigWith(config, "mtu", ParseValue(value))
    ELSE IF EqIgnoreAsciiCase(key, <<114, 101, 99, 118, 95, 116, 105, 109, 101, 111, 117, 116>>)
    THEN ConfigWith(config, "recv_timeout", ParseValue(value))
    ELSE IF EqIgnoreAsciiCase(key, <<107, 101, 121>>) THEN [res |-> "Panic"]
    ELSE [res |-> "Ok", config |-> config]

\* one round of the loop of parse_stream, on the line trimmed at its end
ParseStreamLine(config, line, linenum) ==
    IF line = <<>> THEN [res |-> "Ok", config |-> config]
    ELSE IF ParseLine(line).kind = "None" THEN [res |-> "InvalidConfig", linenum |-> linenum]
    ELSE IF ParseLine(line).kind = "KeyValue"
         THEN ConfigSet(config, ParseLine(line).key, ParseLine(line).value)
    ELSE [res |-> "Ok", config |-> config]

RECURSIVE ParseStreamLoop(_, _, _)
ParseStreamLoop(stream, linenum, r) ==
    IF r.res # "Ok" \/ linenum > Len(stream) THEN r
    ELSE ParseStreamLoop(stream, linenum + 1,
                         ParseStreamLine(r.config, TrimEnd(stream[linenum]), linenum))

\* Config::parse_stream
ParseStream(stream) == ParseStreamLoop(stream, 1, [res |-> "Ok", config |-> ConfigDefault])

\* "mtu = 1400", "remission_count = 2", "; A comment", "# c", "", " \t",
\* "MTU=9", "mtu = x", "key = 1", "o = 1", "recv_timeout = 5", " mtu = 7",
\* "[s]", "name", "mtu ="
TestLines ==
    {<<109, 116, 117, 32, 61, 32, 49, 52, 48, 48>>,
     <<114, 101, 109, 105, 115, 115, 105, 111, 110, 95, 99, 111, 117, 110, 116, 32, 61, 32, 50>>,
     <<59, 32, 65, 32, 99, 111, 109, 109, 101, 110, 116>>,
     <<35, 32, 99>>,
     <<>>,
     <<32, 9>>,
     <<77, 84, 85, 61, 57>>,
     <<109, 116, 117, 32, 61, 32, 120>>,
     <<107, 101, 121, 32, 61, 32, 49>>,
     <<111, 32, 61, 32, 49>>,
     <<114, 101, 99, 118, 95, 116, 105, 109, 101, 111, 117, 116, 32, 61, 32, 53>>,
     <<32, 109, 116, 117, 32, 61, 32, 55>>,
     <<91, 115, 93>>,
     <<110, 97, 109, 101>>,
     <<109, 116, 117, 32, 61>>}

\* most lines of a stream
MaxLines == 2

TestStreams == UNION {[1..n -> TestLines] : n \in 0..MaxLines}

\* Config::parse_stream(stream)
ParseConfig ==
    /\ conf.result = None
    /\ conf' = [conf EXCEPT !.result = Some(ParseStream(conf.stream))]
    /\ UNCHANGED <<overflow_checks, rvars, svars, codec, hvars>>

InitG ==
    /\ overflow_checks \in BOOLEAN
    /\ ReassemblerIdle /\ SenderIdle /\ ReceiverIdle
    /\ codec = [m |-> [kind |-> "Hello"], encoded |-> None, decoded |-> None]
    /\ conf \in [stream : TestStreams, result : {None}]

NextG == ParseConfig

SpecG == InitG /\ [][NextG]_vars

\* a line that is empty or blank
IsBlank(line) == TrimEnd(line) = <<>>

\* a line that starts with ';' or '#'
IsComment(line) == line # <<>> /\ line[1] \in {59, 35}

\* the key of a line that has an '='
KeyOf(line) == TrimEnd(SubSeq(line, 1, FindEq(line) - 1))

\* the value of a line that has an '='
ValueOf(line) == Trim(SubSeq(line, FindEq(line) + 1, Len(line)))

\* a line `key = value`: a key of letters, digits, '_' and '-' at the start
\* of the line, an '=', a value
IsKeyValue(line) ==
    /\ ~IsComment(line)
    /\ FindEq(line) # 0
    /\ KeyOf(line) # <<>> /\ IsValidKey(KeyOf(line))
    /\ ValueOf(line) # <<>>

\* the lines of the stream that set the key
Setting(stream, key) ==
    {i \in 1..Len(stream) : IsKeyValue(stream[i]) /\ EqIgnoreAsciiCase(KeyOf(stream[i]), key)}

\* the value the stream gives the key: that of the last line that sets
\* it, the default when no line does
Given(stream, key, default) ==
    IF Setting(stream, key) = {} THEN default
    ELSE ParseValue(ValueOf(stream[CHOOSE i \in Setting(stream, key) :
                                       \A j \in Setting(stream, key) : j <= i])).value

\* C26 (config parsing): on a stream whose lines are `key = value` lines,
\* blank lines and comments, parse_stream returns Ok with a Config whose mtu
\* and remission_count are the values the stream gives them, and the
\* defaults (3 and 1024) when it gives none.
C26_ConfigParsing ==
    (/\ conf.result # None
     /\ \A i \in 1..Len(conf.stream) :
           IsBlank(conf.stream[i]) \/ IsComment(conf.stream[i]) \/ IsKeyValue(conf.stream[i]))
        => /\ Unwrap(conf.result).res = "Ok"
           /\ Unwrap(conf.result).config.mtu = Given(conf.stream, <<109, 116, 117>>, 1024)
           /\ Unwrap(conf.result).config.remission_count
                 = Given(conf.stream, <<114, 101, 109, 105, 115, 115, 105, 111, 110, 95, 99, 111, 117, 110, 116>>, 3)

----------------------------------------------------------------------------
(* Compaction harness: a peer's datagrams, numbered as its Retransmits       *)
(* number them, pushed whole to a fresh Reassembler until its buffer has     *)
(* grown above the threshold of consume                                      *)

\* most pushes in one run of the compaction harness
MaxCompactFeeds == 5

\* a payload that fills most of a datagram at an mtu of 1414
LargePayload == [i \in 1..1400 |-> i % 256]

CompactPayloads == {<<7>>, <<8, 9>>, LargePayload}

\* the n-th datagram of the peer carries id n - 1
FeedNumbered ==
    \E payload \in CompactPayloads : FeedWhole(U32(Len(fed)), payload, MaxCompactFeeds)

NextZ == FeedNumbered

\* numbered datagrams pushed whole to a fresh Reassembler
SpecZ == InitR /\ [][NextZ]_vars

\* what a consume of count bytes is to do: drop count bytes from the front
\* of the unread bytes, and leave the cursor at the start of the buffer
\* when the buffer was replaced by its tail
Transparent(r, count) ==
    /\ GetData(Consume(r, count)) = SubSeq(GetData(r), count + 1, Len(GetData(r)))
    /\ Len(r.buffer) > ShrinkThreshold => Consume(r, count).offset = 0

\* C27 (buffer compaction): in a run of numbered datagrams every
\* get_next_data call returns the payload of the datagram pushed before it
\* and leaves no byte unread, also once more than 4096 bytes were pushed;
\* and the consume of the header of the next datagram leaves the unread
\* bytes as they are behind the header, with the cursor at the start of
\* the buffer when the buffer was replaced.
C27_CompactionTransparent ==
    /\ AllYielded
    /\ rsm.offset <= Len(rsm.buffer)
    /\ GetData(rsm) = <<>>
    /\ \A payload \in CompactPayloads :
          Transparent(PushData(rsm, Envelope(U32(Len(fed)), payload)), HeaderSize)

----------------------------------------------------------------------------
(* File creation and the chunks that follow, on the File / FileChunk harness *)

\* the File message m names a file under root that create_file can make
Creatable(f, m) ==
    /\ StartsWith(PathJoin(Root, m.filename), Root)
    /\ CreateFile(f, PathJoin(Root, m.filename), m.size).res = "Ok"

\* C28 (inline creation): the turn of the handler that is given a File
\* message whose file can be made ends, before the next message of the peer
\* is taken from the queue, with the file there, holding `size` zero bytes,
\* and registered in opened_files under the id of the message with the
\* expected offset 0; a turn in which a FileChunk changes the file system
\* finds its id registered and the file there; and a registered file is
\* always there.
C28_InlineCreation ==
    /\ [](\A t \in 1..Len(hnd) : \A id \in DOMAIN hnd[t].opened_files :
              hnd[t].opened_files[id].path \in DOMAIN fs.files)
    /\ [][\A t \in 1..Len(hnd) : Dispatches(t) =>
             /\ (Dispatched(t).kind = "File" /\ Creatable(fs, Dispatched(t))) =>
                   /\ Dispatched(t).id \in DOMAIN hnd'[t].opened_files
                   /\ hnd'[t].opened_files[Dispatched(t).id].file_offset = 0
                   /\ hnd'[t].opened_files[Dispatched(t).id].path \in DOMAIN fs'.files
                   /\ fs'.files[hnd'[t].opened_files[Dispatched(t).id].path]
                         = [i \in 1..U64ToNat(Dispatched(t).size) |-> 0]
             /\ (Dispatched(t).kind = "FileChunk" /\ fs' # fs) =>
                   /\ Dispatched(t).id \in DOMAIN hnd[t].opened_files
                   /\ hnd[t].opened_files[Dispatched(t).id].path \in DOMAIN fs.files]_vars

\* the handler was given the File notice of "a" and then the byte 7 at 0,
\* and the file holds the byte in front of its zeros
C28_Witness ==
    \E t \in 1..Len(hnd) :
        /\ Len(hnd[t].seen) = 2
        /\ hnd[t].seen[1].kind = "File" /\ hnd[t].seen[1].filename = <<97>>
        /\ hnd[t].seen[2].kind = "FileChunk" /\ hnd[t].seen[2].content = <<7>>
        /\ hnd[t].trace = <<"info: Created file">>
        /\ << <<114>>, <<97>> >> \in DOMAIN fs.files
        /\ fs.files[<< <<114>>, <<97>> >>] = <<7, 0, 0, 0>>

\* the turn of the task t gives process_message a FileChunk with content
\* whose id opened_files does not hold
UnknownChunk(t) ==
    /\ Dispatches(t)
    /\ Dispatched(t).kind = "FileChunk"
    /\ Dispatched(t).content_size > 0
    /\ Dispatched(t).id \notin DOMAIN hnd[t].opened_files

\* C29 (unknown id): a FileChunk with content whose id has no entry in
\* opened_files is logged and dropped: the file system and opened_files,
\* expected offsets included, stay as they were, and the handler goes on
\* with its loop.
C29_UnknownId ==
    [][\A t \in 1..Len(hnd) : UnknownChunk(t) =>
          /\ fs' = fs
          /\ hnd'[t].opened_files = hnd[t].opened_files
          /\ hnd'[t].trace = Append(hnd[t].trace, "error: File was not opened")
          /\ hnd'[t].status = "running"]_vars

\* the byte 7 for the id 3 came before any File notice and was dropped, and
\* the File notice of "a" that came next was served
C29_Witness ==
    \E t \in 1..Len(hnd) :
        /\ Len(hnd[t].seen) = 2
        /\ hnd[t].seen[1].kind = "FileChunk" /\ hnd[t].seen[1].content = <<7>>
        /\ hnd[t].seen[2].kind = "File" /\ hnd[t].seen[2].filename = <<97>>
        /\ hnd[t].trace = <<"error: File was not opened", "info: Created file">>
        /\ fs.files[<< <<114>>, <<97>> >>] = <<0, 0, 0, 0>>
        /\ hnd[t].status = "running"

----------------------------------------------------------------------------
(* Sentinel harness: one peer sends the File notice of "a", chunks with     *)
(* content and sentinels at several offsets, all for the id 3               *)

SentinelNotice ==
    [kind |-> "File", filename |-> <<97>>,
     created |-> [before_epoch |-> FALSE, secs |-> U64(1700000000), nanos |-> 0],
     size |-> U64(4), id |-> U64(3)]

\* one byte at 0 and one byte at 1
ContentChunks ==
    {[kind |-> "FileChunk", id |-> U64(3), offset |-> U64(0), content_size |-> 1, content |-> <<7>>],
     [kind |-> "FileChunk", id |-> U64(3), offset |-> U64(1), content_size |-> 1, content |-> <<8>>]}

\* sentinels at the start of the file, after its first byte, at its end and
\* at an offset no seek accepts
Sentinels ==
    {[kind |-> "FileChunk", id |-> U64(3), offset |-> o, content_size |-> 0, content |-> <<>>] :
        o \in {U64(0), U64(1), U64(4), <<LimbMax, LimbMax, LimbMax, LimbMax>>}}

PeerSendsNotice == PeerSends("A", SentinelNotice)

PeerSendsContent == \E m \in ContentChunks : PeerSends("A", m)

PeerSendsSentinel == \E m \in Sentinels : PeerSends("A", m)

NextN == PeerSendsNotice \/ PeerSendsContent \/ PeerSendsSentinel \/ HandlerTask

\* one peer: a File notice, chunks and sentinels
SpecN == InitH /\ [][NextN]_vars

IsSentinel(m) == m.kind = "FileChunk" /\ m.content_size = 0

\* the Messages s end a file of the id: a sentinel for it is among them and
\* no File message for it comes later
Closed(s, id) ==
    \E i \in 1..Len(s) :
        /\ IsSentinel(s[i]) /\ s[i].id = id
        /\ \A j \in (i + 1)..Len(s) : ~(s[j].kind = "File" /\ s[j].id = id)

\* C30 (sentinel close): the turn that is given a FileChunk with
\* content_size 0 removes the entry of its id from opened_files, keeps the
\* other entries and writes nothing, at any offset, whether the id was open
\* or not; from then on, until a File message with that id is given to the
\* handler, the id is not in opened_files and a FileChunk with content for
\* it is dropped as not opened, leaving the file system as it was.
C30_SentinelClose ==
    /\ [](\A t \in 1..Len(hnd) : \A m \in ContentChunks \cup Sentinels :
              Closed(hnd[t].seen, m.id) => m.id \notin DOMAIN hnd[t].opened_files)
    /\ [][\A t \in 1..Len(hnd) : Dispatches(t) =>
             /\ IsSentinel(Dispatched(t)) =>
                   /\ hnd'[t].opened_files = MapRemove(hnd[t].opened_files, Dispatched(t).id)
                   /\ fs' = fs
                   /\ hnd'[t].status = "running"
             /\ (/\ Dispatched(t).kind = "FileChunk"
                 /\ Dispatched(t).content_size > 0
                 /\ Closed(hnd[t].seen, Dispatched(t).id)) =>
                   /\ fs' = fs
                   /\ hnd'[t].opened_files = hnd[t].opened_files
                   /\ hnd'[t].trace[Len(hnd'[t].trace)] = "error: File was not opened"]_vars

\* the file of "a" was closed by a sentinel at the offset 1, away from the
\* expected offset 0 and from the end of the file, and the byte that came
\* for it afterwards was dropped
C30_Witness ==
    \E t \in 1..Len(hnd) :
        /\ Len(hnd[t].seen) = 3
        /\ hnd[t].seen[1] = SentinelNotice
        /\ IsSentinel(hnd[t].seen[2]) /\ hnd[t].seen[2].offset = U64(1)
        /\ hnd[t].seen[3].kind = "FileChunk" /\ hnd[t].seen[3].content = <<7>>
        /\ hnd[t].trace = <<"info: Created file", "info: Done receiving",
                            "error: File was not opened">>
        /\ hnd[t].opened_files = <<>>
        /\ fs.files[<< <<114>>, <<97>> >>] = <<0, 0, 0, 0>>

----------------------------------------------------------------------------
(* Creation harness: one peer sends File notices for "a" and "a/b", one of  *)
(* which stands in the way of the other, and chunks for their ids           *)

\* File notices: "a" under the id 3, "a/b" under the ids 3 and 4
CreationNotices ==
    {[kind |-> "File", filename |-> n[1],
      created |-> [before_epoch |-> FALSE, secs |-> U64(1700000000), nanos |-> 0],
      size |-> U64(2), id |-> n[2]] :
        n \in {<< <<97>>, U64(3) >>, << <<97, 47, 98>>, U64(3) >>, << <<97, 47, 98>>, U64(4) >>}}

\* one byte at 0 for each id
CreationChunks ==
    {[kind |-> "FileChunk", id |-> i, offset |-> U64(0), content_size |-> 1, content |-> <<7>>] :
        i \in {U64(3), U64(4)}}

\* the harness follows the peer's first handler task
FirstTaskRuns == \A t \in 1..Len(hnd) : hnd[t].status = "running"

PeerSendsCreation == FirstTaskRuns /\ \E m \in CreationNotices : PeerSends("A", m)

PeerSendsCreationChunk == FirstTaskRuns /\ \E m \in CreationChunks : PeerSends("A", m)

NextX == PeerSendsCreation \/ PeerSendsCreationChunk \/ HandlerTask

\* one peer: File notices that cannot all be served, and chunks
SpecX == InitH /\ [][NextX]_vars

\* the File message m names a file under root that create_file does not make
CreationFails(f, m) ==
    /\ StartsWith(PathJoin(Root, m.filename), Root)
    /\ CreateFile(f, PathJoin(Root, m.filename), m.size).res # "Ok"

\* C31 (creation failure is not fatal): the turn that is given a File
\* message whose file cannot be made logs the failure, leaves opened_files
\* without an entry for the id of the message and the handler in its loop;
\* a FileChunk with content that is given to the handler next is then
\* dropped as not opened, and writes nothing.
C31_CreationFailure ==
    [][\A t \in 1..Len(hnd) : Dispatches(t) =>
          /\ (Dispatched(t).kind = "File" /\ CreationFails(fs, Dispatched(t))) =>
                /\ hnd'[t].trace = Append(hnd[t].trace, "error: Could not create file")
                /\ Dispatched(t).id \notin DOMAIN hnd'[t].opened_files
                /\ hnd'[t].status = "running"
          /\ (/\ Dispatched(t).kind = "FileChunk"
              /\ Dispatched(t).content_size > 0
              /\ hnd[t].seen # <<>>
              /\ hnd[t].seen[Len(hnd[t].seen)].kind = "File"
              /\ hnd[t].seen[Len(hnd[t].seen)].id = Dispatched(t).id
              /\ hnd[t].trace # <<>>
              /\ hnd[t].trace[Len(hnd[t].trace)] = "error: Could not create file") =>
                /\ fs' = fs
                /\ hnd'[t].trace = Append(hnd[t].trace, "error: File was not opened")]_vars

----------------------------------------------------------------------------
(* The reserved key, on the Config harness *)

\* the line sets the key `key`, in any case of its letters
SetsReservedKey(line) == IsKeyValue(line) /\ EqIgnoreAsciiCase(KeyOf(line), <<107, 101, 121>>)

\* the stream without the lines that set `key`
WithoutReservedKey(stream) == SelectSeq(stream, LAMBDA line : ~SetsReservedKey(line))

\* C32 (reserved key): on a stream with a line that sets `key`,
\* parse_stream returns what it returns on the stream without that line:
\* Ok with the same Config when the rest of the stream is well formed.
C32_ReservedKey ==
    (/\ conf.result # None
     /\ \E i \in 1..Len(conf.stream) : SetsReservedKey(conf.stream[i])
     /\ ParseStream(WithoutReservedKey(conf.stream)).res = "Ok")
        => /\ Unwrap(conf.result).res = "Ok"
           /\ Unwrap(conf.result).config = ParseStream(WithoutReservedKey(conf.stream)).config

----------------------------------------------------------------------------
(* Done harness: three peers whose datagrams are all copies of the one that *)
(* carries Done, as a sender with a remission_count above 1 emits them;     *)
(* the dispatcher, the handler tasks and the kill queue at any pace         *)

DonePeers == {"A", "B", "C"}

\* the datagram of a Done message that is the first payload of its sender
DoneDatagram == Envelope(U32(0), MessageToWire([kind |-> "Done"]).bytes)

\* a copy arrives while the queue of the peer's handler has room, or the
\* peer has no handler
PeerSendsDoneCopy ==
    \E p \in DonePeers :
        /\ RecvFrom(p, DoneDatagram)
        /\ UNCHANGED <<overflow_checks, rvars, svars, cvars, fs>>

\* a copy arrives while the queue of the peer's handler is full
PeerSendsDoneToFull ==
    \E p \in DonePeers :
        /\ RecvBlocks(p, DoneDatagram)
        /\ UNCHANGED <<overflow_checks, rvars, svars, cvars, fs>>

NextL ==
    \/ PeerSendsDoneCopy \/ PeerSendsDoneToFull \/ SendResumes
    \/ HandlerTask \/ HandlerNotifies

\* three peers that send copies of Done
SpecL == InitH /\ [][NextL]_vars

\* recv_message waits in sender.send for room in the queue of a handler
\* that waits in kill_tx.send for room in the kill queue
Deadlocked ==
    /\ srv.sending # None
    /\ hnd[srv.handlers[Unwrap(srv.sending).addr]].status = "notifying"
    /\ Len(hnd[srv.handlers[Unwrap(srv.sending).addr]].queue) = ChannelSize
    /\ Len(srv.kill) = ChannelSize

\* C33 (no deadlock between dispatcher and handlers): in no reachable state
\* does the dispatcher wait to send on the full queue of a handler that
\* itself waits to post its address on the full kill queue.
C33_NoDeadlock == ~Deadlocked

----------------------------------------------------------------------------
(* Eviction, on the eviction harness *)

\* C34 (eviction targets the right handler): a handler task that is in its
\* loop keeps the mapping of its address: a notice on the kill queue removes
\* a mapping only when the task it is mapped to has terminated, and a
\* notice left by an earlier task of the address never removes the mapping
\* of a newer task that is still running.
C34_EvictionTargets == \A t \in 1..Len(hnd) : hnd[t].status = "running" => Mapped(t)

----------------------------------------------------------------------------
(* Round-trip harness: a Retransmit over one payload, whose datagrams are   *)
(* pushed to a fresh Reassembler as they are sent, one per push_data, each  *)
(* push followed by get_next_data                                           *)

\* mtus that leave 1, 2 and 6 payload bytes to a datagram
RoundTripMtus == {15, 16, 20}

RoundTripPayloads == {<<>>, <<1>>, <<1, 2>>, <<1, 2, 3>>, <<1, 2, 3, 4, 5>>}

\* Retransmit::new(payload, remission_count, mtu) and Reassembler::new; send
\* has called reset
InitU ==
    /\ overflow_checks \in BOOLEAN
    /\ ReassemblerIdle /\ CodecIdle /\ ReceiverIdle
    /\ cfg \in [mtu : RoundTripMtus, remission_count : 1..MaxR]
    /\ files = <<>>
    /\ \E payload \in RoundTripPayloads :
          snd = [ClientNew EXCEPT
                    !.pc = "sending", !.raw = payload,
                    !.rt = Some(RetransmitReset(
                               RetransmitNew(payload, cfg.remission_count, cfg.mtu, U32(0)).rt))]
    /\ wire = <<>>
    /\ net = <<>>

\* send, one turn of its loop, and the datagram pushed to the Reassembler
EmitAndPush ==
    /\ snd.pc = "sending"
    /\ ~Halted
    /\ \E g \in {GetNextChunk(Unwrap(snd.rt))} :
          /\ g.res = "Some"
          /\ snd' = [snd EXCEPT !.rt = Some(g.rt)]
          /\ wire' = Append(wire, g.rt.buffer)
          /\ PushAndGet(g.rt.buffer,
                        [part |-> "whole", id |-> g.rt.header.id, payload |-> snd.raw, cut |-> 0])
    /\ UNCHANGED <<overflow_checks, pending, cfg, files, net, cvars, hvars>>

\* get_next_chunk returns None: send returns Ok
EmitEnds ==
    /\ snd.pc = "sending"
    /\ GetNextChunk(Unwrap(snd.rt)).res = "None"
    /\ snd' = [snd EXCEPT !.pc = "finished", !.result = "Ok", !.rt = None]
    /\ UNCHANGED <<overflow_checks, rvars, cvars, hvars, cfg, files, wire, net>>

NextU == EmitAndPush \/ EmitEnds

\* a Retransmit and the Reassembler its datagrams are pushed to
SpecU == InitU /\ [][NextU]_vars

\* the payload does not fit one datagram
Fragmented == Len(snd.raw) > cfg.mtu - HeaderSize

\* C35 (round trip of fragmented payloads): while the datagrams of a
\* payload that does not fit one datagram are pushed in the order they are
\* sent, every get_next_data call returns NoData or the payload, the payload
\* is returned at most once and, when send has returned, exactly once.
C35_FragmentRoundTrip ==
    Fragmented =>
        /\ \A i \in 1..Len(out) : out[i] = NoDataResult \/ out[i] = Yielded(snd.raw)
        /\ Cardinality({i \in 1..Len(out) : out[i] = Yielded(snd.raw)}) <= 1
        /\ snd.pc = "finished" =>
              Cardinality({i \in 1..Len(out) : out[i] = Yielded(snd.raw)}) = 1

----------------------------------------------------------------------------
(* Copies of Done, on the Done harness *)

\* C36 (one session for each transfer): the copies of a peer's Done
\* datagram that arrive after its handler has ended on the first create no
\* further handler: the Server never spawns a second handler task for the
\* address of a peer that sends one Done datagram and its copies.
C36_OneSession ==
    \A p \in DonePeers : Cardinality({t \in 1..Len(hnd) : hnd[t].addr = p}) <= 1

----------------------------------------------------------------------------
(* The emitter, on the sender harness *)

\* the byte b of the message went out in a datagram
Covered(b) ==
    \E i \in 1..Len(wire) :
        /\ DatagramOffset(wire[i]) < b
        /\ b <= DatagramOffset(wire[i]) + DatagramSize(wire[i])
        /\ DatagramPayload(wire[i])[b - DatagramOffset(wire[i])] = snd.raw[b]

\* C37 (emitter termination): for every message, remission_count and mtu
\* that Retransmit::new accepts, send does not panic, hands the socket at
\* most remission_count + 1 datagrams for each byte of the message (and
\* for an empty one), and when it has returned Ok every byte of the message
\* went out in a datagram.
C37_EmitterTermination ==
    MessageSerialized =>
        /\ snd.result # "Panic"
        /\ Len(wire) <= (cfg.remission_count + 1) * (Len(snd.raw) + 1)
        /\ snd.result = "Ok" => \A b \in 1..Len(snd.raw) : Covered(b)

----------------------------------------------------------------------------
(* Framing harness: a Retransmit over payloads of up to 65535 bytes, at     *)
(* mtus of up to 65535, its datagrams sent and forgotten                    *)

\* payload lengths and mtus: a few bytes in fragments of 2 and of 6 bytes,
\* and long payloads in one, two or three fragments
FramingCases ==
    {<<5, 16>>, <<5, 20>>, <<40000, 30014>>, <<32769, 32782>>, <<65535, 32782>>,
     <<65535, 49166>>, <<60000, 20014>>}

FramingPayload(len) == [i \in 1..len |-> i % 256]

\* Retransmit::new(payload, remission_count, mtu); send has called reset
InitV ==
    /\ overflow_checks \in BOOLEAN
    /\ ReassemblerIdle /\ CodecIdle /\ ReceiverIdle
    /\ files = <<>>
    /\ wire = <<>>
    /\ net = <<>>
    /\ \E c \in FramingCases, r \in 1..MaxR :
          /\ cfg = [mtu |-> c[2], remission_count |-> r]
          /\ snd = [ClientNew EXCEPT
                       !.pc = "sending",
                       !.rt = Some(RetransmitReset(
                                  RetransmitNew(FramingPayload(c[1]), r, c[2], U32(0)).rt))]

\* send, one turn of its loop: the chunk goes to the socket
EmitOnly ==
    /\ snd.pc = "sending"
    /\ \E g \in {GetNextChunk(Unwrap(snd.rt))} :
          /\ g.res = "Some"
          /\ snd' = [snd EXCEPT !.rt = Some(g.rt)]
    /\ UNCHANGED <<overflow_checks, rvars, cvars, hvars, cfg, files, wire, net>>

\* get_next_chunk panics: the Retransmit stays as the panic found it
EmitOverflows ==
    /\ snd.pc = "sending"
    /\ GetNextChunk(Unwrap(snd.rt)).res = "Panic"
    /\ snd' = [snd EXCEPT !.pc = "panicked", !.result = "Panic"]
    /\ UNCHANGED <<overflow_checks, rvars, cvars, hvars, cfg, files, wire, net>>

NextV == EmitOnly \/ EmitOverflows \/ EmitEnds

\* a Retransmit alone
SpecV == InitV /\ [][NextV]_vars

\* the sums of the Retransmit rt stay within a u16: offset + advance when
\* get_next_chunk is to move on to the next fragment, and offset + size of
\* the header of the datagram it has prepared, which is the sum that
\* from_wire and get_next_data compute on that datagram
SumsWithin16(rt) ==
    /\ rt.current_emission > rt.total_emissions =>
          rt.header.offset + (rt.mtu - HeaderSize) < TwoPow16
    /\ rt.buffer # <<>> =>
          /\ DatagramOffset(rt.buffer) + DatagramSize(rt.buffer) < TwoPow16
          /\ DatagramOffset(rt.buffer) < DatagramTotalSize(rt.buffer)

\* C38 (no 16-bit overflow in framing): for payloads and mtus of at most
\* 65535 the sums offset + advance of the emitter and offset + size of the
\* headers it emits stay within 0..65535, the offsets emitted are below
\* total_size, and from one datagram to the next the offset stays or grows.
C38_NoOverflow16 ==
    /\ [](snd.rt # None => SumsWithin16(Unwrap(snd.rt)))
    /\ [][(snd.rt # None /\ snd'.rt # None) =>
             Unwrap(snd'.rt).header.offset >= Unwrap(snd.rt).header.offset]_vars

----------------------------------------------------------------------------
(* Acceptance by id, on the Reassembler harness *)

\* the push of this step, and what get_next_data returned after it
Pushed == fed'[Len(fed')]

Returned == out'[Len(out')]

\* C39 (monotone acceptance): the ids of the datagrams whose payloads the
\* successive get_next_data calls return are strictly increasing; a whole
\* datagram whose id is below the expected id is consumed and yields
\* nothing, leaving the expected id as it is; one whose id is above is
\* accepted, its payload returned, and the expected id becomes its id + 1.
C39_MonotoneAcceptance ==
    /\ [](\A i, j \in 1..Len(out) :
             (i < j /\ out[i].res = "Ok" /\ out[j].res = "Ok")
                => U32Cmp(fed[i].id, fed[j].id) = "Less")
    /\ [][(Len(fed') = Len(fed) + 1 /\ rsm.expected_id # None) =>
             /\ U32Cmp(Pushed.id, Unwrap(rsm.expected_id)) = "Less" =>
                   /\ Returned = NoDataResult
                   /\ GetData(rsm') = <<>>
                   /\ rsm'.expected_id = rsm.expected_id
             /\ U32Cmp(Pushed.id, Unwrap(rsm.expected_id)) = "Greater" =>
                   /\ Returned = Yielded(Pushed.payload)
                   /\ rsm'.expected_id # None
                   /\ U32Cmp(Pushed.id, Unwrap(rsm'.expected_id)) = "Less"]_vars

----------------------------------------------------------------------------
(* The cursor of the Reassembler, on the harness that splits a datagram *)

\* C40 (cursor invariant): whatever was pushed, a header followed by fewer
\* bytes than its size field included, the cursor of the Reassembler stays
\* within its buffer and no get_next_data call panics on the assertion of
\* consume or on a slice of the unread bytes (the one panic left aside is
\* the overflow of the expected id after a whole datagram of id 2^32 - 1).
C40_CursorInvariant ==
    /\ rsm.offset <= Len(rsm.buffer)
    /\ \A i \in 1..Len(out) :
          out[i].res = "Panic" => (fed[i].id = U32Max /\ fed[i].part # "prefix")

====
